---- MODULE Spec2Model ----
(***************************************************************************)
(* A model of the numerical core of WarpX covered by                       *)
(*   Source/FieldSolver/.../CartesianCKCAlgorithm.H   (CKC stencil)        *)
(*   Source/Particles/ElementaryProcess/QEDPairGeneration.H (Breit-Wheeler)*)
(*   Source/Particles/WarpXParticleContainer.H   (attribute registration)  *)
(*   Source/Particles/PhysicalParticleContainer.H (Evolve, declared only)  *)
(*                                                                         *)
(* amrex::Real / amrex::ParticleReal values are modelled as exact          *)
(* rationals <<numerator, denominator>> in lowest terms, denominator > 0.  *)
(* Array indices are 0-based as in the source.                             *)
(***************************************************************************)
EXTENDS Integers, Sequences, FiniteSets, TLC

VARIABLES
    \* --- CartesianCKCAlgorithm -------------------------------------------
    dim,              \* build: "3D" (WARPX_DIM_3D) or "XZ" (WARPX_DIM_XZ)
    cell_size,        \* std::array<Real,3> cell_size, index 0..2
    stencil_coefs_x,  \* ManagedVector<Real>, empty before initialization
    stencil_coefs_y,
    stencil_coefs_z,
    F,                \* descriptor of the Array4 field handed to the operators
    deriv,            \* the last operator evaluation: [op, i, j, k, val]
    \* --- QED pair generation ---------------------------------------------
    src,              \* source (photon) tile: index -> particle
    dst1,             \* first destination tile
    dst2,             \* second destination tile
    m_generate_functor, \* the pair-creation collaborator held by the transform
    m_opt_depth_runtime_comp, \* the filter's configured runtime component
    stage,            \* position of the per-step pipeline
    dst_index,        \* <<size of dst1, size of dst2>> before this pass grew them
    slot,             \* flagged source index -> <<i_dst1, i_dst2>> of this pass
    pending,          \* flagged source indices not yet transformed in this pass
    pass,             \* number of the current pass (1-based), 0 before the first
    calls,            \* history: transform invocations per source index
    firstNeg,         \* history: pass in which the depth first became negative
    \* --- WarpXParticleContainer: runtime attributes ----------------------
    particle_comps,          \* std::map name -> real component
    particle_icomps,         \* std::map name -> int component
    particle_runtime_comps,  \* std::map name -> runtime real component
    particle_runtime_icomps, \* std::map name -> runtime int component
    m_num_runtime_real,      \* runtime real components of the container
    m_num_runtime_int,       \* runtime int components of the container
    \* --- PhysicalParticleContainer::Evolve -------------------------------
    Efield,           \* the grid fields Ex..Bz: component -> node -> value
    filtered,         \* box -> the arrays filtered_Ex..filtered_Bz of its pass
    fab,              \* box -> component -> what exfab..bzfab point to
    use_nci,          \* whether the NCI Godfrey filter is applied
    do_field_ionization, \* whether the species carries ionization levels
    bstage,           \* box -> position of Evolve in the pass over the box
    parts,            \* particle -> [box, w, x, ux, E]
    prog,             \* particle -> stages done in this step (0..3)
    rho,              \* the charge density: node -> value
    dep,              \* history: particle -> node -> charge it deposited
    estep,            \* number of the step
    \* --- WarpXParticleContainer: deposition by several threads -----------
    use_atomics,      \* whether the threads add to the grid atomically
    dparts,           \* the particles to deposit
    left,             \* thread -> contributions <<particle, node>> to make
    reg,              \* thread -> the value it has read and not yet stored
    local_rho,        \* thread_num -> the scratch buffer of that thread
    merged,           \* thread -> nodes of its buffer added to the grid
    rho_mf            \* the charge density on the grid: node -> value

ckcVars == <<dim, cell_size, stencil_coefs_x, stencil_coefs_y, stencil_coefs_z,
             F, deriv>>
qedVars == <<src, dst1, dst2, m_generate_functor, m_opt_depth_runtime_comp,
             stage, dst_index, slot, pending, pass, calls, firstNeg>>
compVars == <<particle_comps, particle_icomps, particle_runtime_comps,
              particle_runtime_icomps, m_num_runtime_real, m_num_runtime_int>>
evolveVars == <<Efield, filtered, fab, use_nci, do_field_ionization, bstage,
                parts, prog, rho, dep, estep>>
vars == <<dim, cell_size, stencil_coefs_x, stencil_coefs_y, stencil_coefs_z,
          F, deriv, src, dst1, dst2, m_generate_functor,
          m_opt_depth_runtime_comp, stage, dst_index, slot, pending, pass,
          calls, firstNeg, particle_comps, particle_icomps,
          particle_runtime_comps, particle_runtime_icomps, m_num_runtime_real,
          m_num_runtime_int, Efield, filtered, fab, use_nci,
          do_field_ionization, bstage, parts, prog, rho, dep, estep,
          use_atomics, dparts, left, reg, local_rho, merged, rho_mf>>
depositVars == <<use_atomics, dparts, left, reg, local_rho, merged, rho_mf>>
\* what the stencil, the pair generation, the registration and Evolve leave
\* alone
notCKC == <<qedVars, compVars, evolveVars, depositVars>>
notQED == <<ckcVars, compVars, evolveVars, depositVars>>
notComp == <<ckcVars, qedVars, evolveVars, depositVars>>
notEvolve == <<ckcVars, qedVars, compVars, depositVars>>
notDeposit == <<ckcVars, qedVars, compVars, evolveVars>>

(***************************************************************************)
(* Bounds of the model.                                                    *)
(***************************************************************************)
\* cell sizes are drawn from 1..MaxSpacing (and 1/2)
MaxSpacing == 3
\* interior grid indices are 1..GridN on every active axis (halo: 0, GridN+1)
GridN == 2
\* largest number of photons in the source tile
NPhot == 2
\* number of passes (steps) of the pair-generation pipeline
MaxPass == 2
\* largest number of runtime components of one kind that are registered
MaxComps == 3
\* number of steps Evolve is called for
MaxStep == 2

(***************************************************************************)
(* Exact rational arithmetic.                                              *)
(***************************************************************************)
Abs(n) == IF n < 0 THEN -n ELSE n

RECURSIVE GCD(_, _)
GCD(a, b) == IF b = 0 THEN a ELSE GCD(b, a % b)

\* n/d in lowest terms with positive denominator (d # 0)
Rat(n, d) ==
    LET g == GCD(Abs(n), Abs(d))
        s == IF d < 0 THEN -1 ELSE 1
    IN  <<(s * n) \div g, (s * d) \div g>>

RInt(n) == <<n, 1>>
Zero == <<0, 1>>
One == <<1, 1>>
\* sums and products cancel common factors first, to keep the integers small
RAdd(a, b) ==
    LET g == GCD(a[2], b[2])
    IN  Rat(a[1] * (b[2] \div g) + b[1] * (a[2] \div g), (a[2] \div g) * b[2])
RNeg(a) == <<-a[1], a[2]>>
RSub(a, b) == RAdd(a, RNeg(b))
RMul(a, b) ==
    LET g1 == GCD(Abs(a[1]), b[2])
        g2 == GCD(Abs(b[1]), a[2])
    IN  Rat((a[1] \div g1) * (b[1] \div g2), (a[2] \div g2) * (b[2] \div g1))
\* division; the divisor must be nonzero
RDiv(a, b) == Rat(a[1] * b[2], a[2] * b[1])
RLt(a, b) == RSub(a, b)[1] < 0
RMax(a, b) == IF RLt(a, b) THEN b ELSE a

RECURSIVE RSum(_)
RSum(s) == IF s = <<>> THEN Zero ELSE RAdd(Head(s), RSum(Tail(s)))

(***************************************************************************)
(* CartesianCKCAlgorithm::InitializeStencilCoefficients.                   *)
(* d is the build ("3D" or "XZ"), cs the cell_size array.                  *)
(***************************************************************************)
Eighth == Rat(1, 8)       \* 0.125_rt
Sixteenth == Rat(1, 16)   \* 0.0625_rt
Two == RInt(2)
Four == RInt(4)
\* the value of a vector slot that resize() allocated and nothing wrote
Unset == <<0, 0>>
EmptyVec == [s \in {} |-> Unset]

inv_dx(cs) == RDiv(One, cs[0])
inv_dy(cs) == RDiv(One, cs[1])
inv_dz(cs) == RDiv(One, cs[2])

\* slip: the absent axis takes part in the maximum in the XZ build too
delta_all_axes(d, cs) ==
    RMax(inv_dx(cs), RMax(inv_dy(cs), inv_dz(cs)))

delta(d, cs) ==
    IF d = "3D" THEN RMax(inv_dx(cs), RMax(inv_dy(cs), inv_dz(cs)))
    ELSE RMax(inv_dx(cs), inv_dz(cs))

rx(d, cs) == RMul(RDiv(inv_dx(cs), delta(d, cs)), RDiv(inv_dx(cs), delta(d, cs)))
\* ry exists in the 3-D build only
ry(d, cs) == RMul(RDiv(inv_dy(cs), delta(d, cs)), RDiv(inv_dy(cs), delta(d, cs)))
rz(d, cs) == RMul(RDiv(inv_dz(cs), delta(d, cs)), RDiv(inv_dz(cs), delta(d, cs)))

\* slip: a sign in the divisor, ry*rz - rz*rx + rx*ry
r_fac_sign_slip(d, cs) ==
    RSum(<<RMul(ry(d, cs), rz(d, cs)), RNeg(RMul(rz(d, cs), rx(d, cs))),
           RMul(rx(d, cs), ry(d, cs))>>)

\* ry*rz + rz*rx + rx*ry, the divisor of beta and of inv_r_fac (3-D)
r_fac(d, cs) ==
    RSum(<<RMul(ry(d, cs), rz(d, cs)), RMul(rz(d, cs), rx(d, cs)),
           RMul(rx(d, cs), ry(d, cs))>>)

\* slip: the 3-D build uses the uncorrected 2-D value 1/8
beta_uncorrected(d, cs) == Eighth

beta(d, cs) ==
    IF d = "3D"
    THEN RMul(Eighth,
              RSub(One, RDiv(RMul(RMul(rx(d, cs), ry(d, cs)), rz(d, cs)),
                             r_fac(d, cs))))
    ELSE Eighth

betaxy(d, cs) ==
    IF d = "3D" THEN RMul(RMul(ry(d, cs), beta(d, cs)), inv_dx(cs)) ELSE Zero
betaxz(d, cs) ==
    IF d = "3D" THEN RMul(RMul(rz(d, cs), beta(d, cs)), inv_dx(cs))
    ELSE RMul(RMul(beta(d, cs), rz(d, cs)), inv_dx(cs))
betayx(d, cs) ==
    IF d = "3D" THEN RMul(RMul(rx(d, cs), beta(d, cs)), inv_dy(cs)) ELSE Zero
betayz(d, cs) ==
    IF d = "3D" THEN RMul(RMul(rz(d, cs), beta(d, cs)), inv_dy(cs)) ELSE Zero
betazx(d, cs) ==
    IF d = "3D" THEN RMul(RMul(rx(d, cs), beta(d, cs)), inv_dz(cs))
    ELSE RMul(RMul(beta(d, cs), rx(d, cs)), inv_dz(cs))
betazy(d, cs) ==
    IF d = "3D" THEN RMul(RMul(ry(d, cs), beta(d, cs)), inv_dz(cs)) ELSE Zero

inv_r_fac(d, cs) == RDiv(One, r_fac(d, cs))

\* r1*r2*(0.0625 - 0.125*r1*r2*inv_r_fac), the common form of the 3-D gammas
gammaOf(r1, r2, irf) ==
    RMul(RMul(r1, r2),
         RSub(Sixteenth, RMul(RMul(RMul(Eighth, r1), r2), irf)))

gammax(d, cs) ==
    IF d = "3D" THEN gammaOf(ry(d, cs), rz(d, cs), inv_r_fac(d, cs)) ELSE Zero
gammay(d, cs) ==
    IF d = "3D" THEN gammaOf(rx(d, cs), rz(d, cs), inv_r_fac(d, cs)) ELSE Zero
gammaz(d, cs) ==
    IF d = "3D" THEN gammaOf(rx(d, cs), ry(d, cs), inv_r_fac(d, cs)) ELSE Zero

alphax(d, cs) ==
    IF d = "3D"
    THEN RMul(RSub(RSub(RSub(One, RMul(RMul(Two, ry(d, cs)), beta(d, cs))),
                        RMul(RMul(Two, rz(d, cs)), beta(d, cs))),
                   RMul(Four, gammax(d, cs))),
              inv_dx(cs))
    ELSE RMul(RSub(One, RMul(RMul(Two, rz(d, cs)), beta(d, cs))), inv_dx(cs))
alphay(d, cs) ==
    IF d = "3D"
    THEN RMul(RSub(RSub(RSub(One, RMul(RMul(Two, rx(d, cs)), beta(d, cs))),
                        RMul(RMul(Two, rz(d, cs)), beta(d, cs))),
                   RMul(Four, gammay(d, cs))),
              inv_dy(cs))
    ELSE Zero
alphaz(d, cs) ==
    IF d = "3D"
    THEN RMul(RSub(RSub(RSub(One, RMul(RMul(Two, rx(d, cs)), beta(d, cs))),
                        RMul(RMul(Two, ry(d, cs)), beta(d, cs))),
                   RMul(Four, gammaz(d, cs))),
              inv_dz(cs))
    ELSE RMul(RSub(One, RMul(RMul(Two, rx(d, cs)), beta(d, cs))), inv_dz(cs))

\* "Store the coefficients in array stencil_coefs, in prescribed order":
\* resize(6), slots 0..4 written, slot 5 left as allocated
\* slip: slot 4 of the x coefficients holds gammax without the factor inv_dx
CoefsX_gamma_unscaled(d, cs) ==
    [s \in 0..5 |->
        CASE s = 0 -> inv_dx(cs)
          [] s = 1 -> alphax(d, cs)
          [] s = 2 -> betaxy(d, cs)
          [] s = 3 -> betaxz(d, cs)
          [] s = 4 -> gammax(d, cs)
          [] OTHER -> Unset]

CoefsX(d, cs) ==
    [s \in 0..5 |->
        CASE s = 0 -> inv_dx(cs)
          [] s = 1 -> alphax(d, cs)
          [] s = 2 -> betaxy(d, cs)
          [] s = 3 -> betaxz(d, cs)
          [] s = 4 -> RMul(gammax(d, cs), inv_dx(cs))
          [] OTHER -> Unset]
CoefsY(d, cs) ==
    [s \in 0..5 |->
        CASE s = 0 -> inv_dy(cs)
          [] s = 1 -> alphay(d, cs)
          [] s = 2 -> betayz(d, cs)
          [] s = 3 -> betayx(d, cs)
          [] s = 4 -> RMul(gammay(d, cs), inv_dy(cs))
          [] OTHER -> Unset]
\* slip: the two cross betas of the z axis are stored in each other's slot
CoefsZ_betas_swapped(d, cs) ==
    [s \in 0..5 |->
        CASE s = 0 -> inv_dz(cs)
          [] s = 1 -> alphaz(d, cs)
          [] s = 2 -> betazy(d, cs)
          [] s = 3 -> betazx(d, cs)
          [] s = 4 -> RMul(gammaz(d, cs), inv_dz(cs))
          [] OTHER -> Unset]

CoefsZ(d, cs) ==
    [s \in 0..5 |->
        CASE s = 0 -> inv_dz(cs)
          [] s = 1 -> alphaz(d, cs)
          [] s = 2 -> betazx(d, cs)
          [] s = 3 -> betazy(d, cs)
          [] s = 4 -> RMul(gammaz(d, cs), inv_dz(cs))
          [] OTHER -> Unset]

(***************************************************************************)
(* The field array.  F is a descriptor and At(f, i, j, k) the value        *)
(* F(i,j,k) of the Array4: a constant field, a field linear along one      *)
(* array index with slope 1 per unit length (F = index * spacing), or a    *)
(* field that varies along every index.  A descriptor with a component p   *)
(* is the same array with the one sample at index p raised by 1.           *)
(***************************************************************************)
At(f, i, j, k) ==
    LET v == CASE f.kind = "const"  -> RInt(f.c)
               [] f.kind = "linear" ->
                     RMul(RInt(CASE f.along = "i" -> i
                                 [] f.along = "j" -> j
                                 [] OTHER -> k), f.h)
               [] OTHER ->
                     RInt(i * j * j + i * i * j + j * k * k + k * i * i
                          + f.c * i)
    IN  IF "p" \in DOMAIN f /\ f.p = <<i, j, k>> THEN RAdd(v, One) ELSE v

(***************************************************************************)
(* CartesianCKCAlgorithm::UpwardD* / DownwardD*                            *)
(* (n_coefs_* is not used by the source and is left out).                  *)
(***************************************************************************)
UpwardDx(f, coefs_x, d, i, j, k) ==
    IF d = "3D"
    THEN RSum(<<
        RMul(coefs_x[1], RSub(At(f, i+1, j, k), At(f, i, j, k))),
        RMul(coefs_x[2], RSum(<<RSub(At(f, i+1, j+1, k), At(f, i, j+1, k)),
                                RSub(At(f, i+1, j-1, k), At(f, i, j-1, k))>>)),
        RMul(coefs_x[3], RSum(<<RSub(At(f, i+1, j, k+1), At(f, i, j, k+1)),
                                RSub(At(f, i+1, j, k-1), At(f, i, j, k-1))>>)),
        RMul(coefs_x[4], RSum(<<RSub(At(f, i+1, j+1, k+1), At(f, i, j+1, k+1)),
                                RSub(At(f, i+1, j-1, k+1), At(f, i, j-1, k+1)),
                                RSub(At(f, i+1, j+1, k-1), At(f, i, j+1, k-1)),
                                RSub(At(f, i+1, j-1, k-1), At(f, i, j-1, k-1))>>))
        >>)
    ELSE RSum(<<
        RMul(coefs_x[1], RSub(At(f, i+1, j, k), At(f, i, j, k))),
        RMul(coefs_x[3], RSum(<<RSub(At(f, i+1, j+1, k), At(f, i, j+1, k)),
                                RSub(At(f, i+1, j-1, k), At(f, i, j-1, k))>>))
        >>)

\* slip: the two samples are added instead of subtracted
DownwardDx_sum(f, coefs_x, d, i, j, k) ==
    RMul(coefs_x[0], RAdd(At(f, i, j, k), At(f, i-1, j, k)))

DownwardDx(f, coefs_x, d, i, j, k) ==
    RMul(coefs_x[0], RSub(At(f, i, j, k), At(f, i-1, j, k)))

UpwardDy(f, coefs_y, d, i, j, k) ==
    IF d = "3D"
    THEN RSum(<<
        RMul(coefs_y[1], RSub(At(f, i, j+1, k), At(f, i, j, k))),
        RMul(coefs_y[3], RSum(<<RSub(At(f, i+1, j+1, k), At(f, i+1, j, k)),
                                RSub(At(f, i-1, j+1, k), At(f, i-1, j, k))>>)),
        RMul(coefs_y[2], RSum(<<RSub(At(f, i, j+1, k+1), At(f, i, j, k+1)),
                                RSub(At(f, i, j+1, k-1), At(f, i, j, k-1))>>)),
        RMul(coefs_y[4], RSum(<<RSub(At(f, i+1, j+1, k+1), At(f, i+1, j, k+1)),
                                RSub(At(f, i-1, j+1, k+1), At(f, i-1, j, k+1)),
                                RSub(At(f, i+1, j+1, k-1), At(f, i+1, j, k-1)),
                                RSub(At(f, i-1, j+1, k-1), At(f, i-1, j, k-1))>>))
        >>)
    ELSE Zero

\* slip: the two-point difference along j is taken in every build
DownwardDy_every_build(f, coefs_y, d, i, j, k) ==
    RMul(coefs_y[0], RSub(At(f, i, j, k), At(f, i, j-1, k)))

DownwardDy(f, coefs_y, d, i, j, k) ==
    IF d = "3D"
    THEN RMul(coefs_y[0], RSub(At(f, i, j, k), At(f, i, j-1, k)))
    ELSE Zero

\* slip: the upper samples are taken two steps up instead of one
UpwardDz_far(f, coefs_z, d, i, j, k) ==
    IF d = "3D"
    THEN RMul(coefs_z[1], RSub(At(f, i, j, k+2), At(f, i, j, k)))
    ELSE RMul(coefs_z[1], RSub(At(f, i, j+2, k), At(f, i, j, k)))

UpwardDz(f, coefs_z, d, i, j, k) ==
    IF d = "3D"
    THEN RSum(<<
        RMul(coefs_z[1], RSub(At(f, i, j, k+1), At(f, i, j, k))),
        RMul(coefs_z[2], RSum(<<RSub(At(f, i+1, j, k+1), At(f, i+1, j, k)),
                                RSub(At(f, i-1, j, k+1), At(f, i-1, j, k))>>)),
        RMul(coefs_z[3], RSum(<<RSub(At(f, i, j+1, k+1), At(f, i, j+1, k)),
                                RSub(At(f, i, j-1, k+1), At(f, i, j-1, k))>>)),
        RMul(coefs_z[4], RSum(<<RSub(At(f, i+1, j+1, k+1), At(f, i+1, j+1, k)),
                                RSub(At(f, i-1, j+1, k+1), At(f, i-1, j+1, k)),
                                RSub(At(f, i+1, j-1, k+1), At(f, i+1, j-1, k)),
                                RSub(At(f, i-1, j-1, k+1), At(f, i-1, j-1, k))>>))
        >>)
    ELSE RSum(<<
        RMul(coefs_z[1], RSub(At(f, i, j+1, k), At(f, i, j, k))),
        RMul(coefs_z[2], RSum(<<RSub(At(f, i+1, j+1, k), At(f, i+1, j, k)),
                                RSub(At(f, i-1, j+1, k), At(f, i-1, j, k))>>))
        >>)

\* slip: the XZ build steps along the third array index as the 3-D build
DownwardDz_third_index(f, coefs_z, d, i, j, k) ==
    RMul(coefs_z[0], RSub(At(f, i, j, k), At(f, i, j, k-1)))

DownwardDz(f, coefs_z, d, i, j, k) ==
    IF d = "3D"
    THEN RMul(coefs_z[0], RSub(At(f, i, j, k), At(f, i, j, k-1)))
    ELSE RMul(coefs_z[0], RSub(At(f, i, j, k), At(f, i, j-1, k)))

(***************************************************************************)
(* The indices at which an operator reads F when it is evaluated at        *)
(* (i,j,k): every F(...) of its body.                                      *)
(***************************************************************************)
Reads(op, d, i, j, k) ==
    CASE op = "UpwardDx" ->
           {<<a, b, c>> : a \in {i, i+1}, b \in (j-1)..(j+1),
                          c \in IF d = "3D" THEN (k-1)..(k+1) ELSE {k}}
      [] op = "DownwardDx" -> {<<i, j, k>>, <<i-1, j, k>>}
      [] op = "UpwardDy" ->
           IF d = "3D"
           THEN {<<a, b, c>> : a \in (i-1)..(i+1), b \in {j, j+1},
                               c \in (k-1)..(k+1)}
           ELSE {}
      [] op = "DownwardDy" ->
           IF d = "3D" THEN {<<i, j, k>>, <<i, j-1, k>>} ELSE {}
      [] op = "UpwardDz" ->
           IF d = "3D"
           THEN {<<a, b, c>> : a \in (i-1)..(i+1), b \in (j-1)..(j+1),
                               c \in {k, k+1}}
           ELSE {<<a, b, c>> : a \in (i-1)..(i+1), b \in {j, j+1}, c \in {k}}
      [] op = "DownwardDz" ->
           IF d = "3D" THEN {<<i, j, k>>, <<i, j, k-1>>}
           ELSE {<<i, j, k>>, <<i, j-1, k>>}
      [] OTHER -> {}

(***************************************************************************)
(* The stencil state machine: the coefficients are built once, then the    *)
(* operators are evaluated at interior cells in any order; the caller      *)
(* takes each value before it asks for the next.                           *)
(***************************************************************************)
Dims == {"3D", "XZ"}
Spacings == {RInt(n) : n \in 1..MaxSpacing}
CellSizes == [0..2 -> Spacings]

\* fields of the build d on a grid of spacing cs
Fields(d, cs) ==
    {[kind |-> "const", c |-> 3, along |-> "i", h |-> One],
     [kind |-> "varying", c |-> 1, along |-> "i", h |-> One],
     [kind |-> "linear", c |-> 0, along |-> "i", h |-> cs[0]],
     [kind |-> "linear", c |-> 0, along |-> "j",
      h |-> IF d = "3D" THEN cs[1] ELSE cs[2]]}
    \cup (IF d = "3D"
          THEN {[kind |-> "linear", c |-> 0, along |-> "k", h |-> cs[2]]}
          ELSE {})

\* interior indices: 1..GridN on the active axes; k is 0 in the XZ build
InteriorI == 1..GridN
InteriorJ == 1..GridN
InteriorK(d) == IF d = "3D" THEN 1..GridN ELSE {0}

NoDeriv == [op |-> "none", i |-> 0, j |-> 0, k |-> 0, val |-> Zero]

Initialized == DOMAIN stencil_coefs_x = 0..5

InitializeStencilCoefficients ==
    /\ ~Initialized
    /\ stencil_coefs_x' = CoefsX(dim, cell_size)
    /\ stencil_coefs_y' = CoefsY(dim, cell_size)
    /\ stencil_coefs_z' = CoefsZ(dim, cell_size)
    /\ UNCHANGED <<dim, cell_size, F, deriv>>
    /\ UNCHANGED notCKC

EvalUpwardDx ==
    /\ Initialized
    /\ deriv = NoDeriv
    /\ \E i \in InteriorI, j \in InteriorJ, k \in InteriorK(dim) :
         deriv' = [op |-> "UpwardDx", i |-> i, j |-> j, k |-> k,
                   val |-> UpwardDx(F, stencil_coefs_x, dim, i, j, k)]
    /\ UNCHANGED <<dim, cell_size, stencil_coefs_x, stencil_coefs_y,
                   stencil_coefs_z, F>>
    /\ UNCHANGED notCKC

EvalDownwardDx ==
    /\ Initialized
    /\ deriv = NoDeriv
    /\ \E i \in InteriorI, j \in InteriorJ, k \in InteriorK(dim) :
         deriv' = [op |-> "DownwardDx", i |-> i, j |-> j, k |-> k,
                   val |-> DownwardDx(F, stencil_coefs_x, dim, i, j, k)]
    /\ UNCHANGED <<dim, cell_size, stencil_coefs_x, stencil_coefs_y,
                   stencil_coefs_z, F>>
    /\ UNCHANGED notCKC

EvalUpwardDy ==
    /\ Initialized
    /\ deriv = NoDeriv
    /\ \E i \in InteriorI, j \in InteriorJ, k \in InteriorK(dim) :
         deriv' = [op |-> "UpwardDy", i |-> i, j |-> j, k |-> k,
                   val |-> UpwardDy(F, stencil_coefs_y, dim, i, j, k)]
    /\ UNCHANGED <<dim, cell_size, stencil_coefs_x, stencil_coefs_y,
                   stencil_coefs_z, F>>
    /\ UNCHANGED notCKC

EvalDownwardDy ==
    /\ Initialized
    /\ deriv = NoDeriv
    /\ \E i \in InteriorI, j \in InteriorJ, k \in InteriorK(dim) :
         deriv' = [op |-> "DownwardDy", i |-> i, j |-> j, k |-> k,
                   val |-> DownwardDy(F, stencil_coefs_y, dim, i, j, k)]
    /\ UNCHANGED <<dim, cell_size, stencil_coefs_x, stencil_coefs_y,
                   stencil_coefs_z, F>>
    /\ UNCHANGED notCKC

EvalUpwardDz ==
    /\ Initialized
    /\ deriv = NoDeriv
    /\ \E i \in InteriorI, j \in InteriorJ, k \in InteriorK(dim) :
         deriv' = [op |-> "UpwardDz", i |-> i, j |-> j, k |-> k,
                   val |-> UpwardDz(F, stencil_coefs_z, dim, i, j, k)]
    /\ UNCHANGED <<dim, cell_size, stencil_coefs_x, stencil_coefs_y,
                   stencil_coefs_z, F>>
    /\ UNCHANGED notCKC

EvalDownwardDz ==
    /\ Initialized
    /\ deriv = NoDeriv
    /\ \E i \in InteriorI, j \in InteriorJ, k \in InteriorK(dim) :
         deriv' = [op |-> "DownwardDz", i |-> i, j |-> j, k |-> k,
                   val |-> DownwardDz(F, stencil_coefs_z, dim, i, j, k)]
    /\ UNCHANGED <<dim, cell_size, stencil_coefs_x, stencil_coefs_y,
                   stencil_coefs_z, F>>
    /\ UNCHANGED notCKC

\* the caller (the field update) has used the value of the last evaluation
TakeDerivative ==
    /\ deriv # NoDeriv
    /\ deriv' = NoDeriv
    /\ UNCHANGED <<dim, cell_size, stencil_coefs_x, stencil_coefs_y,
                   stencil_coefs_z, F>>
    /\ UNCHANGED notCKC

(***************************************************************************)
(* Particle tiles.  A tile is [m_aos, m_rdata, m_runtime_rdata]:           *)
(* m_aos[i].id, m_rdata[comp][i] (comp a PIdx), m_runtime_rdata[comp][i].  *)
(***************************************************************************)
PIdx_w == 0
PIdx_ux == 1
PIdx_uy == 2
PIdx_uz == 3
PIdx_Ex == 4
PIdx_Ey == 5
PIdx_Ez == 6
PIdx_Bx == 7
PIdx_By == 8
PIdx_Bz == 9
PIdx_nattribs == 10

\* number of runtime real components of the photon species
NRuntime == 2

np(t) == Cardinality(DOMAIN t.m_aos)

\* PhysConst::m_e enters only as me and 1/me; a nonzero rational stands for
\* its SI value
me == Rat(911, 1000)
\* slip: the daughters' momenta are stored without the division by me
one_over_me_dropped == One
one_over_me == RDiv(One, me)

(***************************************************************************)
(* PairGenerationFilterFunc::operator()                                    *)
(***************************************************************************)
\* slip: the filter reads runtime component 0 whatever component is configured
FilterReadsComp0(ptd, comp, i) ==
    RLt(ptd.m_runtime_rdata[0][i], Zero)

\* variant: the filter also requires a valid (non-negative) id
FilterSkipsInvalid(ptd, comp, i) ==
    /\ ptd.m_aos[i].id >= 0
    /\ RLt(ptd.m_runtime_rdata[comp][i], Zero)

\* slip: "<=" for "<", so an optical depth of exactly 0 is flagged
FilterLessEqual(ptd, comp, i) ==
    ~RLt(Zero, ptd.m_runtime_rdata[comp][i])

PairGenerationFilterFunc(ptd, comp, i) ==
    LET opt_depth == ptd.m_runtime_rdata[comp][i]
    IN  RLt(opt_depth, Zero)

(***************************************************************************)
(* BreitWheelerGeneratePairs::operator()<1>: the pair-creation             *)
(* collaborator.  Each daughter carries the photon's weight and the two    *)
(* daughter momenta add up to the photon's; "half" splits the momentum     *)
(* evenly, "skew" gives one quarter to the first daughter.                 *)
(***************************************************************************)
Generators == {"half", "skew"}

BreitWheelerGeneratePairs(gen, px, py, pz, ex, ey, ez, bx, by, bz, w) ==
    LET q == IF gen = "half" THEN Rat(1, 2) ELSE Rat(1, 4)
    IN  [e_px |-> RMul(q, px), e_py |-> RMul(q, py), e_pz |-> RMul(q, pz),
         p_px |-> RSub(px, RMul(q, px)), p_py |-> RSub(py, RMul(q, py)),
         p_pz |-> RSub(pz, RMul(q, pz)),
         e_w |-> w, p_w |-> w]

(***************************************************************************)
(* PairGenerationTransformFunc::operator(): the tiles after the call.      *)
(***************************************************************************)
\* slip: the photon's weight is read from the ux component
SrcWeightFromUx(s, i_src) == s.m_rdata[PIdx_ux][i_src]
\* "const ParticleReal w = src.m_rdata[PIdx::w][i_src]"
SrcWeight(s, i_src) == s.m_rdata[PIdx_w][i_src]

\* slip: the id is negated, so a second invocation gives it back
DestroyPhotonNegates(s, i_src) == [s EXCEPT !.m_aos[i_src].id = -@]
\* slip: destroying the photon also clears its weight
DestroyPhotonClearsWeight(s, i_src) ==
    [s EXCEPT !.m_aos[i_src].id = -1, !.m_rdata[PIdx_w][i_src] = Zero]
\* slip: the source photon is not destroyed
DestroyPhotonSkipped(s, i_src) == s
\* "src.m_aos[i_src].id() = -1; //destroy photon after pair generation"
DestroyPhoton(s, i_src) == [s EXCEPT !.m_aos[i_src].id = -1]

\* slip: the second daughter is written to the last slot of dst2, whatever
\* slot the invocation was handed
TransformSharedSlot(d1, d2, s, i_src, i_dst1, i_dst2, gen) ==
    LET g == BreitWheelerGeneratePairs(gen,
                 RMul(s.m_rdata[PIdx_ux][i_src], me),
                 RMul(s.m_rdata[PIdx_uy][i_src], me),
                 RMul(s.m_rdata[PIdx_uz][i_src], me),
                 s.m_rdata[PIdx_Ex][i_src], s.m_rdata[PIdx_Ey][i_src],
                 s.m_rdata[PIdx_Ez][i_src], s.m_rdata[PIdx_Bx][i_src],
                 s.m_rdata[PIdx_By][i_src], s.m_rdata[PIdx_Bz][i_src],
                 SrcWeight(s, i_src))
        last == np(d2) - 1
    IN  [dst1 |-> [d1 EXCEPT
                    !.m_rdata[PIdx_w][i_dst1] = g.e_w,
                    !.m_rdata[PIdx_ux][i_dst1] = RMul(g.e_px, one_over_me),
                    !.m_rdata[PIdx_uy][i_dst1] = RMul(g.e_py, one_over_me),
                    !.m_rdata[PIdx_uz][i_dst1] = RMul(g.e_pz, one_over_me)],
         dst2 |-> [d2 EXCEPT
                    !.m_rdata[PIdx_w][last] = g.p_w,
                    !.m_rdata[PIdx_ux][last] = RMul(g.p_px, one_over_me),
                    !.m_rdata[PIdx_uy][last] = RMul(g.p_py, one_over_me),
                    !.m_rdata[PIdx_uz][last] = RMul(g.p_pz, one_over_me)],
         src  |-> DestroyPhoton(s, i_src)]

PairGenerationTransformFunc(d1, d2, s, i_src, i_dst1, i_dst2, gen) ==
    LET w  == SrcWeight(s, i_src)
        ux == s.m_rdata[PIdx_ux][i_src]
        uy == s.m_rdata[PIdx_uy][i_src]
        uz == s.m_rdata[PIdx_uz][i_src]
        ex == s.m_rdata[PIdx_Ex][i_src]
        ey == s.m_rdata[PIdx_Ey][i_src]
        ez == s.m_rdata[PIdx_Ez][i_src]
        bx == s.m_rdata[PIdx_Bx][i_src]
        by == s.m_rdata[PIdx_By][i_src]
        bz == s.m_rdata[PIdx_Bz][i_src]
        px == RMul(ux, me)
        py == RMul(uy, me)
        pz == RMul(uz, me)
        g  == BreitWheelerGeneratePairs(gen, px, py, pz, ex, ey, ez,
                                        bx, by, bz, w)
    IN  [dst1 |-> [d1 EXCEPT
                    !.m_rdata[PIdx_w][i_dst1] = g.e_w,
                    !.m_rdata[PIdx_ux][i_dst1] = RMul(g.e_px, one_over_me),
                    !.m_rdata[PIdx_uy][i_dst1] = RMul(g.e_py, one_over_me),
                    !.m_rdata[PIdx_uz][i_dst1] = RMul(g.e_pz, one_over_me)],
         dst2 |-> [d2 EXCEPT
                    !.m_rdata[PIdx_w][i_dst2] = g.p_w,
                    !.m_rdata[PIdx_ux][i_dst2] = RMul(g.p_px, one_over_me),
                    !.m_rdata[PIdx_uy][i_dst2] = RMul(g.p_py, one_over_me),
                    !.m_rdata[PIdx_uz][i_dst2] = RMul(g.p_pz, one_over_me)],
         src  |-> DestroyPhoton(s, i_src)]

(***************************************************************************)
(* The particle-creation driver and the optical-depth advance, per pass:   *)
(* the push lowers every photon's optical depth, the filter is evaluated   *)
(* on every source index, destination slots are allocated by the prefix    *)
(* count of flagged photons before any slot is written, and the transform  *)
(* is then invoked once per flagged photon, in any order.                  *)
(***************************************************************************)
\* initial ensembles: weight of photon 0 and the scale of the momenta
Variants == {[w0 |-> RInt(1), scale |-> RInt(1)],
             [w0 |-> RInt(2), scale |-> Rat(-3, 2)]}
\* amounts by which one push lowers an optical depth
Drops == {RInt(0), RInt(2)}
\* optical depth of freshly initialised photon i: 1, 2, 1, 2, ...
InitDepth(i) == RInt(1 + (i % 2))
\* number of particles already in each destination tile
InitDstSizes == {0, 1}

SrcIdx == DOMAIN src.m_aos

Flagged(s, comp) ==
    {i \in DOMAIN s.m_aos : PairGenerationFilterFunc(s, comp, i)}

\* number of conversions up to and including photon i
PrefixCount(flags, i) == Cardinality({j \in flags : j <= i})

SlotOf(old, flags, i) == old + PrefixCount(flags, i) - 1

\* tile t grown to n particles; the new slots hold a new valid id and
\* attributes nobody has written yet
Resize(t, n) ==
    [t EXCEPT
       !.m_aos = [i \in 0..(n - 1) |->
                    IF i \in DOMAIN t.m_aos THEN t.m_aos[i] ELSE [id |-> i + 1]],
       !.m_rdata = [c \in DOMAIN t.m_rdata |->
                      [i \in 0..(n - 1) |->
                         IF i \in DOMAIN t.m_rdata[c] THEN t.m_rdata[c][i]
                         ELSE Unset]]]

\* an initial tile of n particles
InitTile(n, w0, scale, nruntime, depthComp) ==
    [m_aos   |-> [i \in 0..(n - 1) |-> [id |-> i + 1]],
     m_rdata |-> [c \in 0..(PIdx_nattribs - 1) |->
                    [i \in 0..(n - 1) |->
                       CASE c = PIdx_w  -> RAdd(w0, RInt(i))
                         [] c = PIdx_ux -> RMul(scale, Rat(2 * i + 3, 2))
                         [] c = PIdx_uy -> RMul(scale, RInt(-(i + 1)))
                         [] c = PIdx_uz -> RMul(scale, RInt(i + 4))
                         [] OTHER -> RInt(c + i)]],
     m_runtime_rdata |-> [c \in 0..(nruntime - 1) |->
                            [i \in 0..(n - 1) |->
                               IF c = depthComp THEN InitDepth(i) ELSE RInt(-7)]]]

EmptyTile == InitTile(0, One, One, 0, 0)

AdvanceOpticalDepth ==
    /\ stage = "push"
    /\ pass < MaxPass
    /\ \E drop \in [SrcIdx -> Drops] :
         LET c == m_opt_depth_runtime_comp
             tau == [i \in SrcIdx |-> RSub(src.m_runtime_rdata[c][i], drop[i])]
         IN  /\ src' = [src EXCEPT !.m_runtime_rdata[c] = tau]
             /\ firstNeg' = [i \in SrcIdx |->
                               IF firstNeg[i] = 0 /\ RLt(tau[i], Zero)
                               THEN pass + 1 ELSE firstNeg[i]]
    /\ pass' = pass + 1
    /\ stage' = "filter"
    /\ UNCHANGED <<dst1, dst2, m_generate_functor, m_opt_depth_runtime_comp,
                   dst_index, slot, pending, calls>>
    /\ UNCHANGED notQED

ApplyFilter ==
    /\ stage = "filter"
    /\ LET flags == Flagged(src, m_opt_depth_runtime_comp)
           n == Cardinality(flags)
       IN  /\ dst_index' = <<np(dst1), np(dst2)>>
           /\ slot' = [i \in flags |-> <<SlotOf(np(dst1), flags, i),
                                         SlotOf(np(dst2), flags, i)>>]
           /\ pending' = flags
           /\ dst1' = Resize(dst1, np(dst1) + n)
           /\ dst2' = Resize(dst2, np(dst2) + n)
    /\ stage' = "transform"
    /\ UNCHANGED <<src, m_generate_functor, m_opt_depth_runtime_comp, pass,
                   calls, firstNeg>>
    /\ UNCHANGED notQED

Transform ==
    /\ stage = "transform"
    /\ \E i \in pending :
         LET r == PairGenerationTransformFunc(dst1, dst2, src, i, slot[i][1],
                                              slot[i][2], m_generate_functor)
         IN  /\ dst1' = r.dst1
             /\ dst2' = r.dst2
             /\ src' = r.src
             /\ pending' = pending \ {i}
             /\ calls' = [calls EXCEPT ![i] = @ + 1]
    /\ UNCHANGED <<m_generate_functor, m_opt_depth_runtime_comp, stage,
                   dst_index, slot, pass, firstNeg>>
    /\ UNCHANGED notQED

EndPass ==
    /\ stage = "transform"
    /\ pending = {}
    /\ stage' = "push"
    /\ UNCHANGED <<src, dst1, dst2, m_generate_functor,
                   m_opt_depth_runtime_comp, dst_index, slot, pending, pass,
                   calls, firstNeg>>
    /\ UNCHANGED notQED

(***************************************************************************)
(* WarpXParticleContainer::AddRealComp / AddIntComp.  The container is an  *)
(* amrex::ParticleContainer<0, 0, PIdx::nattribs>: NumRealComps() is the   *)
(* PIdx::nattribs compile-time components plus the runtime ones,           *)
(* NumIntComps() the 0 compile-time ones plus the runtime ones, and the    *)
(* inherited AddRealComp(comm) / AddIntComp(comm) append one component.    *)
(* A std::map is a function from the names it holds.                       *)
(***************************************************************************)
NArrayInt == 0
NumRealComps == PIdx_nattribs + m_num_runtime_real
NumIntComps == NArrayInt + m_num_runtime_int

\* names the callers register
CompNames == {"optical_depth_BW", "optical_depth_QSR", "ionization_level"}
EmptyMap == [n \in {} |-> 0]
\* m[name] = v of std::map: the entry is created or overwritten
MapSet(m, name, v) ==
    [n \in DOMAIN m \cup {name} |-> IF n = name THEN v ELSE m[n]]

\* slip: the runtime index is not taken relative to PIdx::nattribs
AddRealComp_no_offset ==
    /\ m_num_runtime_real < MaxComps
    /\ \E name \in CompNames :
         /\ particle_comps' = MapSet(particle_comps, name, NumRealComps)
         /\ particle_runtime_comps' =
              MapSet(particle_runtime_comps, name, NumRealComps)
    /\ m_num_runtime_real' = m_num_runtime_real + 1
    /\ UNCHANGED <<particle_icomps, particle_runtime_icomps, m_num_runtime_int>>
    /\ UNCHANGED notComp

AddRealComp ==
    /\ m_num_runtime_real < MaxComps
    /\ \E name \in CompNames :
         /\ particle_comps' = MapSet(particle_comps, name, NumRealComps)
         /\ particle_runtime_comps' =
              MapSet(particle_runtime_comps, name, NumRealComps - PIdx_nattribs)
    /\ m_num_runtime_real' = m_num_runtime_real + 1
    /\ UNCHANGED <<particle_icomps, particle_runtime_icomps, m_num_runtime_int>>
    /\ UNCHANGED notComp

\* slip: the int maps record the number of real components
AddIntComp_counts_reals ==
    /\ m_num_runtime_int < MaxComps
    /\ \E name \in CompNames :
         /\ particle_icomps' = MapSet(particle_icomps, name, NumRealComps)
         /\ particle_runtime_icomps' =
              MapSet(particle_runtime_icomps, name, NumRealComps - 0)
    /\ m_num_runtime_int' = m_num_runtime_int + 1
    /\ UNCHANGED <<particle_comps, particle_runtime_comps, m_num_runtime_real>>
    /\ UNCHANGED notComp

AddIntComp ==
    /\ m_num_runtime_int < MaxComps
    /\ \E name \in CompNames :
         /\ particle_icomps' = MapSet(particle_icomps, name, NumIntComps)
         /\ particle_runtime_icomps' =
              MapSet(particle_runtime_icomps, name, NumIntComps - 0)
    /\ m_num_runtime_int' = m_num_runtime_int + 1
    /\ UNCHANGED <<particle_comps, particle_runtime_comps, m_num_runtime_real>>
    /\ UNCHANGED notComp

(***************************************************************************)
(* PhysicalParticleContainer::Evolve: "iterates over particle iterator     *)
(* (each box) and performs filtering, field gather, particle push and      *)
(* current deposition for all particles in the box".  FieldGather, PushPX  *)
(* and DepositCharge take the particle iterator of one box; a box is       *)
(* passed by one thread (thread_num), so the boxes advance independently   *)
(* of each other.  The grid is one-dimensional: box b holds the positions  *)
(* 4b..4b+3, counted in half cells, and the nodes 2b..2b+2.                 *)
(***************************************************************************)
FieldComps == {"Ex", "Ey", "Ez", "Bx", "By", "Bz"}
Boxes == {0, 1}
Nodes == 0..(2 * Cardinality(Boxes))
BoxPositions(b) == (4 * b)..(4 * b + 3)
Half == Rat(1, 2)
\* the charge of the species
Charge == RInt(-1)

\* the shape function of a particle at position x: its weight on each node
Shape(x) ==
    [n \in Nodes |->
        IF x % 2 = 0
        THEN IF n = x \div 2 THEN One ELSE Zero
        ELSE IF n \in {x \div 2, (x \div 2) + 1} THEN Half ELSE Zero]
\* the field array f interpolated to position x
Interpolate(f, x) ==
    RAdd(RMul(Shape(x)[x \div 2], RInt(f[x \div 2])),
         RMul(Shape(x)[(x \div 2) + 1], RInt(f[(x \div 2) + 1])))
\* the filter stencil applied to the array f
NCIFilter(f) == [n \in Nodes |-> f[n] + f[IF n = 0 THEN n ELSE n - 1]]
\* the array a pointer of box b refers to
Pointee(b, comp) ==
    IF fab[b][comp] = "filtered" THEN filtered[b][comp] ELSE Efield[comp]

InitField ==
    [comp \in FieldComps |->
        [n \in Nodes |->
            n * n + (CASE comp = "Ex" -> 1 [] comp = "Ey" -> 2 [] comp = "Ez" -> 3
                       [] comp = "Bx" -> 4 [] comp = "By" -> 5 [] OTHER -> 6)]]
\* the field advance between two steps
AdvancedField(e) == [comp \in FieldComps |-> [n \in Nodes |-> e[comp][n] + n + 1]]
NoArrays == [comp \in FieldComps |-> <<>>]
Persisted == [comp \in FieldComps |-> "persisted"]
NoField == [comp \in FieldComps |-> Zero]
ZeroDensity == [n \in Nodes |-> Zero]

\* the ensembles Evolve is run on
\* ion_lev is the ionization level of the particle; it is read only when
\* the species does field ionization
Particle(b, w, x, l) ==
    [box |-> b, w |-> w, x |-> x, ion_lev |-> l, ux |-> Zero, E |-> NoField]
Ensembles ==
    {<<Particle(0, RInt(2), 1, 1), Particle(0, RInt(-2), 1, 2),
       Particle(1, One, 4, 1)>>,
     <<Particle(0, One, 0, 0), Particle(0, RInt(3), 3, 1),
       Particle(1, RInt(-1), 5, 2), Particle(1, One, 5, 2)>>}
PartIdx == DOMAIN parts
InBox(b) == {p \in PartIdx : parts[p].box = b}

\* exfab = &Ex[pti], ...: the pass over box b starts with the pointers on
\* the grid fields
StartBox ==
    \E b \in Boxes :
      /\ bstage[b] = "idle"
      /\ fab' = [fab EXCEPT ![b] = Persisted]
      /\ bstage' = [bstage EXCEPT ![b] = IF use_nci THEN "filter" ELSE "gather"]
      /\ UNCHANGED <<Efield, filtered, use_nci, do_field_ionization, parts, prog,
                     rho, dep, estep>>
      /\ UNCHANGED notEvolve

\* slip: the filtered values are written into the grid fields themselves
applyNCIFilter_in_place ==
    \E b \in Boxes :
      /\ bstage[b] = "filter"
      /\ Efield' = [comp \in FieldComps |-> NCIFilter(Efield[comp])]
      /\ bstage' = [bstage EXCEPT ![b] = "gather"]
      /\ UNCHANGED <<filtered, fab, use_nci, do_field_ionization, parts,
                     prog, rho, dep, estep>>
      /\ UNCHANGED notEvolve

\* "The NCI Godfrey filter is applied on Ex, the result is stored in
\* filtered_Ex and the pointer exfab is modified"
applyNCIFilter ==
    \E b \in Boxes :
      /\ bstage[b] = "filter"
      /\ filtered' = [filtered EXCEPT
                        ![b] = [comp \in FieldComps |-> NCIFilter(Efield[comp])]]
      /\ fab' = [fab EXCEPT ![b] = [comp \in FieldComps |-> "filtered"]]
      /\ bstage' = [bstage EXCEPT ![b] = "gather"]
      /\ UNCHANGED <<Efield, use_nci, do_field_ionization, parts, prog,
                     rho, dep, estep>>
      /\ UNCHANGED notEvolve

\* FieldGather(pti, ..., exfab, ...) for one particle of the box
FieldGather ==
    \E p \in PartIdx :
      /\ bstage[parts[p].box] = "gather"
      /\ prog[p] = 0
      /\ parts' = [parts EXCEPT
                     ![p].E = [comp \in FieldComps |->
                                 Interpolate(Pointee(parts[p].box, comp),
                                             parts[p].x)]]
      /\ prog' = [prog EXCEPT ![p] = 1]
      /\ UNCHANGED <<Efield, filtered, fab, use_nci, do_field_ionization, bstage,
                     rho, dep, estep>>
      /\ UNCHANGED notEvolve

\* the momentum and the position of a particle after the push: a kick by
\* the gathered field, then a move by the new momentum; a particle that
\* leaves its box on one side comes back in on the other
Pushed(q) ==
    LET u == RAdd(q.ux, RMul(Charge, q.E["Ex"]))
        lo == 4 * q.box
    IN  [q EXCEPT !.ux = u, !.x = lo + ((q.x - lo + (u[1] \div u[2])) % 4)]

\* slip: the push of a particle does not wait for the gather of the others
PushPX_no_barrier ==
    \E p \in PartIdx :
      /\ prog[p] = 1
      /\ parts' = [parts EXCEPT ![p] = Pushed(parts[p])]
      /\ prog' = [prog EXCEPT ![p] = 2]
      /\ UNCHANGED <<Efield, filtered, fab, use_nci, do_field_ionization, bstage,
                     rho, dep, estep>>
      /\ UNCHANGED notEvolve

\* PushPX(pti, dt) for one particle of the box, after FieldGather(pti, ...)
\* has returned
PushPX ==
    \E p \in PartIdx :
      /\ prog[p] = 1
      /\ \A q \in InBox(parts[p].box) : prog[q] >= 1
      /\ parts' = [parts EXCEPT ![p] = Pushed(parts[p])]
      /\ prog' = [prog EXCEPT ![p] = 2]
      /\ UNCHANGED <<Efield, filtered, fab, use_nci, do_field_ionization, bstage,
                     rho, dep, estep>>
      /\ UNCHANGED notEvolve

\* the charge of one physical particle: ion_lev is a null pointer unless
\* the species does field ionization, and scales the charge otherwise
ParticleCharge(q) ==
    IF do_field_ionization THEN RMul(Charge, RInt(q.ion_lev)) ELSE Charge
\* slip: the magnitude of the weight is deposited
Deposit_abs_weight(q) ==
    [n \in Nodes |->
        RMul(RMul(ParticleCharge(q), IF RLt(q.w, Zero) THEN RNeg(q.w) ELSE q.w),
             Shape(q.x)[n])]
\* the charge a particle deposits on each node
Deposit(q) == [n \in Nodes |-> RMul(RMul(ParticleCharge(q), q.w), Shape(q.x)[n])]

\* DepositCharge(pti, wp, ion_lev, rho, ...) for one particle of the box, at
\* its new position, after PushPX(pti, dt) has returned
DepositCharge ==
    \E p \in PartIdx :
      /\ prog[p] = 2
      /\ \A q \in InBox(parts[p].box) : prog[q] >= 2
      /\ rho' = [n \in Nodes |-> RAdd(rho[n], Deposit(parts[p])[n])]
      /\ dep' = [dep EXCEPT ![p] = Deposit(parts[p])]
      /\ prog' = [prog EXCEPT ![p] = 3]
      /\ UNCHANGED <<Efield, filtered, fab, use_nci, do_field_ionization, bstage,
                     parts, estep>>
      /\ UNCHANGED notEvolve

\* Evolve has returned; the field advance and the reset of the charge
\* density happen before the next step
EndStep ==
    /\ estep < MaxStep
    /\ \A p \in PartIdx : prog[p] = 3
    /\ estep' = estep + 1
    /\ Efield' = AdvancedField(Efield)
    /\ bstage' = [b \in Boxes |-> "idle"]
    /\ prog' = [p \in PartIdx |-> 0]
    /\ rho' = ZeroDensity
    /\ dep' = [p \in PartIdx |-> ZeroDensity]
    /\ UNCHANGED <<filtered, fab, use_nci, do_field_ionization, parts>>
    /\ UNCHANGED notEvolve

(***************************************************************************)
(* Deposition by several threads.  The pass over the boxes is shared out   *)
(* among the threads, one box each; DepositCharge is handed thread_num.    *)
(* A thread either adds each contribution to the grid in one atomic step,  *)
(* or accumulates into its scratch buffer local_rho[thread_num] with a     *)
(* plain read followed by a plain write, and adds the buffer to the grid   *)
(* atomically, node by node, once it has deposited all its particles.      *)
(***************************************************************************)
Threads == Boxes
NoValue == <<>>
\* the ensembles deposited; in the last one both threads add to one node
DepositEnsembles ==
    Ensembles \cup {<<Particle(0, One, 3, 1), Particle(0, RInt(2), 3, 1),
                      Particle(1, RInt(3), 4, 1), Particle(1, One, 5, 1)>>}
\* the contributions thread t has to make: one per particle of its box and
\* node the particle's shape touches
Contributions(t) ==
    {pn \in (DOMAIN dparts) \X Nodes :
        dparts[pn[1]].box = t /\ Shape(dparts[pn[1]].x)[pn[2]] # Zero}
Contribution(pn) == Deposit(dparts[pn[1]])[pn[2]]
\* slip: every thread uses the buffer of the first thread
BufferOfFirstThread(t) == CHOOSE u \in Threads : \A v \in Threads : u <= v
\* local_rho[thread_num]
BufferOf(t) == t

\* amrex::Gpu::Atomic::Add on the grid array
DepositAtomic ==
    /\ use_atomics
    /\ \E t \in Threads : \E pn \in left[t] :
         /\ rho_mf' = [rho_mf EXCEPT ![pn[2]] = RAdd(@, Contribution(pn))]
         /\ left' = [left EXCEPT ![t] = @ \ {pn}]
    /\ UNCHANGED <<use_atomics, dparts, reg, local_rho, merged>>
    /\ UNCHANGED notDeposit

\* the read of "local_rho[thread_num](node) += wq * shape"
LoadLocal ==
    /\ ~use_atomics
    /\ \E t \in Threads : \E pn \in left[t] :
         /\ reg[t] = NoValue
         /\ reg' = [reg EXCEPT
                      ![t] = <<pn, local_rho[BufferOf(t)][pn[2]]>>]
    /\ UNCHANGED <<use_atomics, dparts, left, local_rho, merged, rho_mf>>
    /\ UNCHANGED notDeposit

\* the write of "local_rho[thread_num](node) += wq * shape"
StoreLocal ==
    /\ \E t \in Threads :
         /\ reg[t] # NoValue
         /\ local_rho' = [local_rho EXCEPT
                            ![BufferOf(t)][reg[t][1][2]] =
                                RAdd(reg[t][2], Contribution(reg[t][1]))]
         /\ left' = [left EXCEPT ![t] = @ \ {reg[t][1]}]
         /\ reg' = [reg EXCEPT ![t] = NoValue]
    /\ UNCHANGED <<use_atomics, dparts, merged, rho_mf>>
    /\ UNCHANGED notDeposit

\* the buffer of a thread that has deposited its particles is added to the
\* grid, one atomic add per node
MergeLocal ==
    /\ ~use_atomics
    /\ \E t \in Threads : \E n \in Nodes \ merged[t] :
         /\ left[t] = {}
         /\ reg[t] = NoValue
         /\ rho_mf' = [rho_mf EXCEPT ![n] = RAdd(@, local_rho[BufferOf(t)][n])]
         /\ merged' = [merged EXCEPT ![t] = @ \cup {n}]
    /\ UNCHANGED <<use_atomics, dparts, left, reg, local_rho>>
    /\ UNCHANGED notDeposit

(***************************************************************************)
(* Specifications.                                                         *)
(***************************************************************************)
IdleDeposit ==
    /\ use_atomics = FALSE
    /\ dparts = <<>>
    /\ left = [t \in Threads |-> {}]
    /\ reg = [t \in Threads |-> NoValue]
    /\ local_rho = [t \in Threads |-> ZeroDensity]
    /\ merged = [t \in Threads |-> {}]
    /\ rho_mf = ZeroDensity

IdleEvolve ==
    /\ Efield = InitField
    /\ filtered = [b \in Boxes |-> NoArrays]
    /\ fab = [b \in Boxes |-> Persisted]
    /\ use_nci = FALSE
    /\ do_field_ionization = FALSE
    /\ bstage = [b \in Boxes |-> "idle"]
    /\ parts = <<>>
    /\ prog = <<>>
    /\ rho = ZeroDensity
    /\ dep = <<>>
    /\ estep = 1

IdleComp ==
    /\ particle_comps = EmptyMap
    /\ particle_icomps = EmptyMap
    /\ particle_runtime_comps = EmptyMap
    /\ particle_runtime_icomps = EmptyMap
    /\ m_num_runtime_real = 0
    /\ m_num_runtime_int = 0

IdleCKC ==
    /\ dim = "3D"
    /\ cell_size = [a \in 0..2 |-> One]
    /\ stencil_coefs_x = EmptyVec
    /\ stencil_coefs_y = EmptyVec
    /\ stencil_coefs_z = EmptyVec
    /\ F = [kind |-> "const", c |-> 3, along |-> "i", h |-> One]
    /\ deriv = NoDeriv

IdleQED ==
    /\ src = EmptyTile
    /\ dst1 = EmptyTile
    /\ dst2 = EmptyTile
    /\ m_generate_functor = "half"
    /\ m_opt_depth_runtime_comp = 0
    /\ stage = "idle"
    /\ dst_index = <<0, 0>>
    /\ slot = <<>>
    /\ pending = {}
    /\ pass = 0
    /\ calls = <<>>
    /\ firstNeg = <<>>

InitCKC ==
    /\ dim \in Dims
    /\ cell_size \in CellSizes
    /\ F \in Fields(dim, cell_size)
    /\ stencil_coefs_x = EmptyVec
    /\ stencil_coefs_y = EmptyVec
    /\ stencil_coefs_z = EmptyVec
    /\ deriv = NoDeriv
    /\ IdleQED
    /\ IdleComp
    /\ IdleEvolve
    /\ IdleDeposit

NextCKC ==
    \/ InitializeStencilCoefficients
    \/ EvalUpwardDx
    \/ EvalDownwardDx
    \/ EvalUpwardDy
    \/ EvalDownwardDy
    \/ EvalUpwardDz
    \/ EvalDownwardDz
    \/ TakeDerivative

SpecCKC == InitCKC /\ [][NextCKC]_vars

InitQED ==
    /\ m_generate_functor \in Generators
    /\ m_opt_depth_runtime_comp \in 0..(NRuntime - 1)
    /\ \E n \in 1..NPhot, v \in Variants :
         src = InitTile(n, v.w0, v.scale, NRuntime, m_opt_depth_runtime_comp)
    /\ \E n \in InitDstSizes :
         /\ dst1 = InitTile(n, One, One, 0, 0)
         /\ dst2 = InitTile(n, Two, One, 0, 0)
    /\ stage = "push"
    /\ dst_index = <<np(dst1), np(dst2)>>
    /\ slot = <<>>
    /\ pending = {}
    /\ pass = 0
    /\ calls = [i \in SrcIdx |-> 0]
    /\ firstNeg = [i \in SrcIdx |-> 0]
    /\ IdleCKC
    /\ IdleComp
    /\ IdleEvolve
    /\ IdleDeposit

NextQED ==
    \/ AdvanceOpticalDepth
    \/ ApplyFilter
    \/ Transform
    \/ EndPass

SpecQED == InitQED /\ [][NextQED]_vars

\* registration of runtime attributes, from the freshly built container
InitComp ==
    /\ IdleComp
    /\ IdleCKC
    /\ IdleQED
    /\ IdleEvolve
    /\ IdleDeposit

NextComp ==
    \/ AddRealComp
    \/ AddIntComp

SpecComp == InitComp /\ [][NextComp]_vars

\* Evolve, step after step, on an ensemble spread over the boxes
InitEvolve ==
    /\ Efield = InitField
    /\ filtered = [b \in Boxes |-> NoArrays]
    /\ fab = [b \in Boxes |-> Persisted]
    /\ use_nci \in BOOLEAN
    /\ do_field_ionization \in BOOLEAN
    /\ bstage = [b \in Boxes |-> "idle"]
    /\ parts \in Ensembles
    /\ prog = [p \in PartIdx |-> 0]
    /\ rho = ZeroDensity
    /\ dep = [p \in PartIdx |-> ZeroDensity]
    /\ estep = 1
    /\ IdleCKC
    /\ IdleQED
    /\ IdleComp
    /\ IdleDeposit

NextEvolve ==
    \/ StartBox
    \/ applyNCIFilter
    \/ FieldGather
    \/ PushPX
    \/ DepositCharge
    \/ EndStep

SpecEvolve == InitEvolve /\ [][NextEvolve]_vars

\* the deposition of one ensemble by the threads
InitDeposit ==
    /\ use_atomics \in BOOLEAN
    /\ dparts \in DepositEnsembles
    /\ left = [t \in Threads |-> Contributions(t)]
    /\ reg = [t \in Threads |-> NoValue]
    /\ local_rho = [t \in Threads |-> ZeroDensity]
    /\ merged = [t \in Threads |-> {}]
    /\ rho_mf = ZeroDensity
    /\ IdleCKC
    /\ IdleQED
    /\ IdleComp
    /\ IdleEvolve

NextDeposit ==
    \/ DepositAtomic
    \/ LoadLocal
    \/ StoreLocal
    \/ MergeLocal

SpecDeposit == InitDeposit /\ [][NextDeposit]_vars

(***************************************************************************)
(* Properties of the pair-generation filter and transform (SpecQED).       *)
(***************************************************************************)
\* the optical depth the filter is configured to read
Depth(i) == src.m_runtime_rdata[m_opt_depth_runtime_comp][i]
IsNeg(x) == x[1] < 0
Filter(i) == PairGenerationFilterFunc(src, m_opt_depth_runtime_comp, i)
\* the transform has been invoked for every photon flagged in this pass
PassTransformed == stage = "transform" /\ pending = {}
\* the slots this pass appended to the destination tiles
NewSlots1 == dst_index[1]..(np(dst1) - 1)
NewSlots2 == dst_index[2]..(np(dst2) - 1)

RECURSIVE SumOver(_, _)
SumOver(f, S) ==
    IF S = {} THEN Zero
    ELSE LET x == CHOOSE y \in S : TRUE
         IN  RAdd(f[x], SumOver(f, S \ {x}))

\* C1: the filter returns true exactly for the photons whose optical depth
\* (at the configured runtime component) is strictly negative; at depth 0
\* and at positive depth it returns false; after the filter stage the
\* flagged photons are exactly those of negative depth.
C1_FilterIffNegative ==
    /\ \A i \in SrcIdx :
         /\ Filter(i) <=> IsNeg(Depth(i))
         /\ Depth(i) = Zero => ~Filter(i)
         /\ Depth(i)[1] > 0 => ~Filter(i)
    /\ stage = "transform" => DOMAIN slot = {i \in SrcIdx : IsNeg(Depth(i))}

C1_Witness ==
    /\ stage = "transform"
    /\ \E i, j \in SrcIdx :
         /\ Depth(i) = Zero /\ i \notin DOMAIN slot
         /\ IsNeg(Depth(j)) /\ j \in DOMAIN slot

\* C2 (as claimed): the filter returns false for every photon whose id the
\* transform has set to the negative sentinel.
C2_FilterExcludesDestroyed ==
    \A i \in SrcIdx : src.m_aos[i].id < 0 => ~Filter(i)

\* C2 (amended): the filter reads only the optical depth, which the
\* transform leaves negative: for every photon whose id the transform has
\* set negative the filter returns true, and a later pass flags it again.
C2_FilterStillFlagsDestroyed ==
    /\ \A i \in SrcIdx : src.m_aos[i].id < 0 => Filter(i)
    /\ stage = "transform" =>
         \A i \in SrcIdx : (src.m_aos[i].id < 0 \/ calls[i] > 0) => i \in DOMAIN slot

C2_Witness ==
    /\ stage = "transform"
    /\ pass >= 2
    /\ \E i \in pending : src.m_aos[i].id < 0 /\ calls[i] = 1

\* the number of passes whose filter saw photon i with a negative depth
NegPasses(i) == IF firstNeg[i] = 0 THEN 0 ELSE pass - firstNeg[i] + 1

\* C3 (as claimed): the transform is invoked exactly once for each photon
\* whose depth became negative, in the pass in which it became negative,
\* and never again in a later pass.
C3_TransformOncePerPhoton ==
    /\ \A i \in SrcIdx : calls[i] <= 1
    /\ (stage = "push" \/ PassTransformed) =>
         \A i \in SrcIdx : calls[i] = (IF firstNeg[i] = 0 THEN 0 ELSE 1)

\* C3 (amended): in every pass the transform is invoked exactly once for
\* each photon whose depth is negative at that pass's filter, so once in
\* the pass in which the depth became negative and, with no compaction in
\* between, once more in every later pass.
C3_TransformOncePerPassWhileNegative ==
    /\ (stage = "push" \/ PassTransformed) =>
         \A i \in SrcIdx : calls[i] = NegPasses(i)
    /\ stage = "filter" =>
         \A i \in SrcIdx :
           calls[i] = (IF IsNeg(Depth(i)) THEN NegPasses(i) - 1 ELSE 0)
    /\ stage = "transform" =>
         \A i \in SrcIdx :
           calls[i] = (IF i \in pending THEN NegPasses(i) - 1 ELSE NegPasses(i))

C3_Witness ==
    /\ PassTransformed
    /\ pass = 2
    /\ \E i, j \in SrcIdx :
         /\ firstNeg[i] = 1 /\ calls[i] = 2
         /\ firstNeg[j] = 2 /\ calls[j] = 1

\* C4: when the filter flagged N photons and the transform has been applied
\* to each with its two allocated slots, exactly N particles have been
\* created in each destination tile (N new slots, every one written by the
\* transform of exactly one flagged photon) and the id of every flagged
\* photon is negative (-1).
C4_NPairsCreatedSourcesDestroyed ==
    PassTransformed =>
      LET N == Cardinality(DOMAIN slot)
      IN  /\ DOMAIN slot = {i \in SrcIdx : IsNeg(Depth(i))}
          /\ np(dst1) = dst_index[1] + N
          /\ np(dst2) = dst_index[2] + N
          /\ \A k \in NewSlots1 :
               /\ Cardinality({i \in DOMAIN slot : slot[i][1] = k}) = 1
               /\ dst1.m_rdata[PIdx_w][k] # Unset
          /\ \A k \in NewSlots2 :
               /\ Cardinality({i \in DOMAIN slot : slot[i][2] = k}) = 1
               /\ dst2.m_rdata[PIdx_w][k] # Unset
          /\ \A i \in DOMAIN slot : src.m_aos[i].id = -1

C4_Witness ==
    /\ PassTransformed
    /\ Cardinality(DOMAIN slot) >= 2
    /\ dst_index[1] > 0
    /\ \A i \in DOMAIN slot : src.m_aos[i].id < 0

HalfOf(x) == RMul(Rat(1, 2), x)

C6_EndToEndOnePhoton ==
    ( /\ np(src) = 1
      /\ src.m_rdata[PIdx_w][0] = One
      /\ m_generate_functor = "half"
      /\ dst_index = <<0, 0>>
      /\ PassTransformed
      /\ calls[0] = 1 ) =>
      /\ np(dst1) = 1
      /\ np(dst2) = 1
      /\ \A d \in {dst1, dst2} :
           /\ d.m_rdata[PIdx_w][0] = One
           /\ d.m_rdata[PIdx_ux][0] = HalfOf(src.m_rdata[PIdx_ux][0])
           /\ d.m_rdata[PIdx_uy][0] = HalfOf(src.m_rdata[PIdx_uy][0])
           /\ d.m_rdata[PIdx_uz][0] = HalfOf(src.m_rdata[PIdx_uz][0])
      /\ src.m_aos[0].id < 0

C6_Witness ==
    /\ np(src) = 1
    /\ src.m_rdata[PIdx_w][0] = One
    /\ m_generate_functor = "half"
    /\ dst_index = <<0, 0>>
    /\ PassTransformed
    /\ calls[0] = 1
    /\ dst1.m_rdata[PIdx_ux][0] = Rat(3, 4)
    /\ dst2.m_rdata[PIdx_uz][0] = RInt(2)

(***************************************************************************)
(* Properties of the CKC stencil (SpecCKC).                                *)
(***************************************************************************)
Cubic == cell_size[0] = cell_size[1] /\ cell_size[1] = cell_size[2]
AllCoefs == {stencil_coefs_x, stencil_coefs_y, stencil_coefs_z}
\* the coefficient vectors of the axes the build has
ActiveCoefs ==
    IF dim = "3D" THEN AllCoefs ELSE {stencil_coefs_x, stencil_coefs_z}
UpwardOps == {"UpwardDx", "UpwardDy", "UpwardDz"}
DownwardOps == {"DownwardDx", "DownwardDy", "DownwardDz"}
\* the array index along which operator op differentiates in the build
AlongOf(op) ==
    CASE op \in {"UpwardDx", "DownwardDx"} -> "i"
      [] op \in {"UpwardDy", "DownwardDy"} -> IF dim = "3D" THEN "j" ELSE "none"
      [] op \in {"UpwardDz", "DownwardDz"} -> IF dim = "3D" THEN "k" ELSE "j"
      [] OTHER -> "none"
\* the inverse spacing of the axis operator op differentiates along
InvOf(op) ==
    CASE op \in {"UpwardDx", "DownwardDx"} -> stencil_coefs_x[0]
      [] op \in {"UpwardDy", "DownwardDy"} -> stencil_coefs_y[0]
      [] OTHER -> stencil_coefs_z[0]
\* the two-point difference (F(next) - F(here)) * inverse spacing at the
\* cell of the last evaluation, along the axis of its operator
TwoPoint ==
    LET a == AlongOf(deriv.op)
        i == deriv.i
        j == deriv.j
        k == deriv.k
        nxt == CASE a = "i" -> At(F, i + 1, j, k)
                 [] a = "j" -> At(F, i, j + 1, k)
                 [] OTHER -> At(F, i, j, k + 1)
    IN  RMul(InvOf(deriv.op), RSub(nxt, At(F, i, j, k)))

\* C7 (as claimed): 3-D build, uniform cubic spacing: slots 2, 3 and 4 of
\* every axis are zero and slot 1 is 1/dx, and the upward derivative is the
\* two-point difference (F(i+1)-F(i))/dx.
C7_CubicIsTwoPoint ==
    (Initialized /\ dim = "3D" /\ Cubic) =>
      /\ \A c \in AllCoefs :
           c[2] = Zero /\ c[3] = Zero /\ c[4] = Zero /\ c[1] = c[0]
      /\ deriv.op \in UpwardOps => deriv.val = TwoPoint

\* C7 (amended): 3-D build, uniform cubic spacing: beta = 1/12 and
\* gamma = 1/48 on every axis (slots 2 and 3 are 1/(12 dx), slot 4 is
\* 1/(48 dx)) and alpha = 7/(12 dx) (slot 1); the weights add up to 1/dx, so
\* the upward derivative is the two-point difference (F(i+1)-F(i))/dx on
\* the fields that do not vary along the transverse axes.
C7_CubicCoefficients ==
    (Initialized /\ dim = "3D" /\ Cubic) =>
      /\ beta(dim, cell_size) = Rat(1, 12)
      /\ gammax(dim, cell_size) = Rat(1, 48)
      /\ gammay(dim, cell_size) = Rat(1, 48)
      /\ gammaz(dim, cell_size) = Rat(1, 48)
      /\ \A c \in AllCoefs :
           /\ c[0] = RDiv(One, cell_size[0])
           /\ c[1] = RMul(Rat(7, 12), c[0])
           /\ c[2] = RMul(Rat(1, 12), c[0])
           /\ c[3] = RMul(Rat(1, 12), c[0])
           /\ c[4] = RMul(Rat(1, 48), c[0])
      /\ (deriv.op \in UpwardOps /\ F.kind \in {"const", "linear"}) =>
           deriv.val = TwoPoint

C7_Witness ==
    /\ Initialized
    /\ dim = "3D"
    /\ Cubic
    /\ cell_size[0] = RInt(2)
    /\ stencil_coefs_y[3] = Rat(1, 24)
    /\ deriv.op = "UpwardDx"
    /\ F.kind = "linear"
    /\ F.along = "i"
    /\ deriv.val = One

\* C8: on a field that is linear along an axis with slope 1, the downward
\* and the upward derivative along that axis are exactly 1 at every
\* interior cell, for every choice of spacings; the stored weights of each
\* active axis satisfy alpha + 2 beta1 + 2 beta2 + 4 gamma = inverse
\* spacing (in the XZ build beta2 and gamma are 0: alpha + 2 beta).
C8_LinearFieldSlopeOne ==
    Initialized =>
      /\ (F.kind = "linear" /\ deriv.op # "none" /\ AlongOf(deriv.op) = F.along)
           => deriv.val = One
      /\ \A c \in ActiveCoefs :
           RSum(<<c[1], RMul(Two, c[2]), RMul(Two, c[3]), RMul(Four, c[4])>>)
             = c[0]

C8_Witness ==
    /\ Initialized
    /\ dim = "3D"
    /\ cell_size[0] # cell_size[1]
    /\ cell_size[1] # cell_size[2]
    /\ cell_size[0] # cell_size[2]
    /\ F.kind = "linear"
    /\ F.along = "j"
    /\ deriv.op = "UpwardDy"
    /\ deriv.val = One
    /\ stencil_coefs_y[4] # Zero

\* C9: on a field with the same value at every grid point all six operators
\* return exactly 0 at every interior cell.
C9_ConstantFieldZero ==
    (F.kind = "const" /\ deriv.op # "none") => deriv.val = Zero

C9_Witness ==
    /\ F.kind = "const"
    /\ At(F, 1, 1, 1) # Zero
    /\ deriv.op = "UpwardDz"
    /\ dim = "3D"
    /\ ~Cubic
    /\ deriv.val = Zero

\* C10: for positive spacings the divisor ry*rz + rz*rx + rx*ry of the 3-D
\* build is strictly positive, so beta and the gammas are never divided by
\* zero.
C10_DivisorPositive ==
    (Initialized /\ dim = "3D") => RLt(Zero, r_fac(dim, cell_size))

C10_Witness ==
    /\ Initialized
    /\ dim = "3D"
    /\ ~Cubic
    /\ r_fac(dim, cell_size) # RInt(3)
    /\ RLt(Zero, r_fac(dim, cell_size))

(***************************************************************************)
(* Probes of the operators: an array with one sample changed, and          *)
(* coefficient vectors with one slot changed.                              *)
(***************************************************************************)
\* the array f with the sample at index p raised by 1
Poke(fld, idx) ==
    [kind |-> fld.kind, c |-> fld.c, along |-> fld.along, h |-> fld.h,
     p |-> idx]
\* values written into a coefficient slot to see whether a result uses it
SlotProbes == {RInt(5), Rat(-1, 3)}
\* the coefficient vector c with slot s set to g
WithSlot(c, s, g) == [c EXCEPT ![s] = g]
\* the indices around (i,j,k) that differ from k along the third array index
OffPlane(i, j, k) ==
    {<<a, b, c>> : a \in (i-1)..(i+1), b \in (j-1)..(j+1), c \in {k-1, k+1}}

\* C11: in the XZ build UpwardDy and DownwardDy return exactly 0 for every
\* field, every coefficient vector and every index, and the value of
\* UpwardDx and of UpwardDz depends neither on a sample off the (i,j) plane
\* nor on the gamma slot (4) nor on the cross beta of the absent axis
\* (slot 2 of x, slot 3 of z).
C11_XZAbsentAxisZero ==
    (Initialized /\ dim = "XZ" /\ deriv.op # "none") =>
      LET i == deriv.i
          j == deriv.j
          k == deriv.k
      IN  /\ deriv.op \in {"UpwardDy", "DownwardDy"} =>
                /\ deriv.val = Zero
                /\ \A c \in AllCoefs \cup {CoefsY("3D", cell_size)} :
                     \A f \in Fields(dim, cell_size) :
                        /\ UpwardDy(f, c, dim, i, j, k) = Zero
                        /\ DownwardDy(f, c, dim, i, j, k) = Zero
          /\ deriv.op = "UpwardDx" =>
                /\ \A p \in OffPlane(i, j, k) :
                     UpwardDx(Poke(F, p), stencil_coefs_x, dim, i, j, k)
                       = deriv.val
                /\ \A g \in SlotProbes, s \in {2, 4} :
                     UpwardDx(F, WithSlot(stencil_coefs_x, s, g), dim, i, j, k)
                       = deriv.val
          /\ deriv.op = "UpwardDz" =>
                /\ \A p \in OffPlane(i, j, k) :
                     UpwardDz(Poke(F, p), stencil_coefs_z, dim, i, j, k)
                       = deriv.val
                /\ \A g \in SlotProbes, s \in {3, 4} :
                     UpwardDz(F, WithSlot(stencil_coefs_z, s, g), dim, i, j, k)
                       = deriv.val

C11_Witness ==
    /\ Initialized
    /\ dim = "XZ"
    /\ deriv.op = "DownwardDy"
    /\ F.kind = "linear"
    /\ F.along = "j"
    /\ stencil_coefs_y[0] # Zero
    /\ deriv.val = Zero

(***************************************************************************)
(* The 3-D coefficients written out from the spacings, axis a in 0..2      *)
(* (x, y, z), for the comparison with the stored vectors.  Every           *)
(* intermediate value is named by a quantifier over a one-element set.     *)
(***************************************************************************)
\* the two axes other than a, in increasing order
Others == [a \in 0..2 |->
             CASE a = 0 -> <<1, 2>> [] a = 1 -> <<0, 2>> [] OTHER -> <<0, 1>>]
StoredOf(a) ==
    CASE a = 0 -> stencil_coefs_x [] a = 1 -> stencil_coefs_y
      [] OTHER -> stencil_coefs_z
\* the value of operator op at the cell of the last evaluation, on field f
ValueOn(op, f) ==
    CASE op = "UpwardDx" ->
           UpwardDx(f, stencil_coefs_x, dim, deriv.i, deriv.j, deriv.k)
      [] op = "UpwardDy" ->
           UpwardDy(f, stencil_coefs_y, dim, deriv.i, deriv.j, deriv.k)
      [] op = "UpwardDz" ->
           UpwardDz(f, stencil_coefs_z, dim, deriv.i, deriv.j, deriv.k)
      [] op = "DownwardDx" ->
           DownwardDx(f, stencil_coefs_x, dim, deriv.i, deriv.j, deriv.k)
      [] op = "DownwardDy" ->
           DownwardDy(f, stencil_coefs_y, dim, deriv.i, deriv.j, deriv.k)
      [] OTHER ->
           DownwardDz(f, stencil_coefs_z, dim, deriv.i, deriv.j, deriv.k)
\* the index one step up along array axes m and n (0 = i, 1 = j, 2 = k)
\* from the cell of the last evaluation
UpUp(m, n) ==
    <<deriv.i + (IF 0 \in {m, n} THEN 1 ELSE 0),
      deriv.j + (IF 1 \in {m, n} THEN 1 ELSE 0),
      deriv.k + (IF 2 \in {m, n} THEN 1 ELSE 0)>>
AxisOf(op) ==
    CASE op \in {"UpwardDx", "DownwardDx"} -> 0
      [] op \in {"UpwardDy", "DownwardDy"} -> 1
      [] OTHER -> 2
\* The stored vectors are {inv, alpha, beta1, beta2, last} with the
\* formulas of the 3-D build, last being gamma * inv if scaled and gamma if
\* not; and raising the sample one step up along the operator's axis and
\* one step up along the transverse axis o raises the upward derivative by
\* the cross beta built with the r of o.
C17_Tuple(scaled) ==
    \A inv \in {[a \in 0..2 |-> RDiv(One, cell_size[a])]} :
    \A dl \in {RMax(inv[0], RMax(inv[1], inv[2]))} :
    \A q \in {[a \in 0..2 |-> RDiv(inv[a], dl)]} :
    \A r \in {[a \in 0..2 |-> RMul(q[a], q[a])]} :
    \A den \in {RSum(<<RMul(r[1], r[2]), RMul(r[2], r[0]), RMul(r[0], r[1])>>)} :
    \A rrr \in {RMul(r[0], RMul(r[1], r[2]))} :
    \A b \in {RMul(Eighth, RSub(One, RDiv(rrr, den)))} :
    \A prod \in {[a \in 0..2 |-> RMul(r[Others[a][1]], r[Others[a][2]])]} :
    \A frac \in {[a \in 0..2 |-> RMul(Eighth, RDiv(prod[a], den))]} :
    \A g \in {[a \in 0..2 |-> RMul(prod[a], RSub(Sixteenth, frac[a]))]} :
    \A rb \in {[a \in 0..2 |-> RMul(r[a], b)]} :
    \A sum \in {[a \in 0..2 |->
                  RSum(<<RMul(Two, rb[Others[a][1]]),
                         RMul(Two, rb[Others[a][2]]), RMul(Four, g[a])>>)]} :
    \A alpha \in {[a \in 0..2 |-> RMul(RSub(One, sum[a]), inv[a])]} :
    \A cross \in {[a \in 0..2 |-> [o \in 0..2 |-> RMul(rb[o], inv[a])]]} :
      /\ \A a \in 0..2 :
           /\ StoredOf(a)[0] = inv[a]
           /\ StoredOf(a)[1] = alpha[a]
           /\ {StoredOf(a)[2], StoredOf(a)[3]}
                = {cross[a][Others[a][1]], cross[a][Others[a][2]]}
           /\ StoredOf(a)[4] = IF scaled THEN RMul(g[a], inv[a]) ELSE g[a]
      /\ deriv.op \in UpwardOps =>
           \A o \in {Others[AxisOf(deriv.op)][1], Others[AxisOf(deriv.op)][2]} :
             \A v \in {ValueOn(deriv.op, Poke(F, UpUp(AxisOf(deriv.op), o)))} :
               RSub(v, deriv.val) = cross[AxisOf(deriv.op)][o]

\* C17 (as claimed): 3-D build: the vector stored for each axis is
\* {inverse spacing, alpha, beta1, beta2, gamma} with the spec's formulas,
\* gamma_axis = product*(1/16 - 1/8*product/denominator) being the value of
\* the last slot, and each Upward operator multiplies the neighbours of a
\* transverse axis by the cross beta built with the r of that axis.
C17_StoredTupleGamma ==
    (Initialized /\ dim = "3D") => C17_Tuple(FALSE)

\* C17 (amended): as claimed, except that the last slot holds
\* gamma_axis * inverse spacing.
C17_StoredTupleGammaScaled ==
    (Initialized /\ dim = "3D") => C17_Tuple(TRUE)

C17_Witness ==
    /\ Initialized
    /\ dim = "3D"
    /\ cell_size[0] = RInt(1)
    /\ cell_size[1] = RInt(2)
    /\ cell_size[2] = RInt(3)
    /\ deriv.op = "UpwardDz"
    /\ F.kind = "varying"
    /\ stencil_coefs_z[2] # stencil_coefs_z[3]
    /\ stencil_coefs_z[4] # Zero

\* C18: XZ build, all positive spacings dx, dz (and any dy): beta = 1/8, the
\* r's come from dx and dz only, the x vector is {1/dx, (1 - 2 rz beta)/dx,
\* 0, beta rz/dx, 0}, the z vector {1/dz, (1 - 2 rx beta)/dz, beta rx/dz, 0,
\* 0}, the y vector has 0 in slots 1..4, and the cross betas are in the
\* slots UpwardDx and UpwardDz read: raising the sample one step up along
\* both array indices raises UpwardDx by beta rz/dx and UpwardDz by
\* beta rx/dz.
C18_XZCoefficients ==
    (Initialized /\ dim = "XZ") =>
      \A inv \in {[a \in 0..2 |-> RDiv(One, cell_size[a])]} :
      \A dl \in {RMax(inv[0], inv[2])} :
      \A q \in {[a \in {0, 2} |-> RDiv(inv[a], dl)]} :
      \A r \in {[a \in {0, 2} |-> RMul(q[a], q[a])]} :
      \A rb \in {[a \in {0, 2} |-> RMul(Eighth, r[a])]} :
        /\ stencil_coefs_x[0] = inv[0]
        /\ stencil_coefs_x[1] = RMul(RSub(One, RMul(Two, rb[2])), inv[0])
        /\ stencil_coefs_x[2] = Zero
        /\ stencil_coefs_x[3] = RMul(rb[2], inv[0])
        /\ stencil_coefs_x[4] = Zero
        /\ \A s \in 1..4 : stencil_coefs_y[s] = Zero
        /\ stencil_coefs_z[0] = inv[2]
        /\ stencil_coefs_z[1] = RMul(RSub(One, RMul(Two, rb[0])), inv[2])
        /\ stencil_coefs_z[2] = RMul(rb[0], inv[2])
        /\ stencil_coefs_z[3] = Zero
        /\ stencil_coefs_z[4] = Zero
        /\ deriv.op = "UpwardDx" =>
             \A v \in {ValueOn(deriv.op, Poke(F, UpUp(0, 1)))} :
               RSub(v, deriv.val) = RMul(rb[2], inv[0])
        /\ deriv.op = "UpwardDz" =>
             \A v \in {ValueOn(deriv.op, Poke(F, UpUp(0, 1)))} :
               RSub(v, deriv.val) = RMul(rb[0], inv[2])

C18_Witness ==
    /\ Initialized
    /\ dim = "XZ"
    /\ cell_size[0] = RInt(2)
    /\ cell_size[1] = RInt(1)
    /\ cell_size[2] = RInt(3)
    /\ stencil_coefs_x[3] = Rat(1, 36)
    /\ stencil_coefs_z[2] = Rat(1, 24)
    /\ deriv.op = "UpwardDz"
    /\ F.kind = "varying"

\* the value of the Downward operator op at the cell of the last
\* evaluation, with the coefficient vector c
DownOn(op, c) ==
    CASE op = "DownwardDx" -> DownwardDx(F, c, dim, deriv.i, deriv.j, deriv.k)
      [] op = "DownwardDy" -> DownwardDy(F, c, dim, deriv.i, deriv.j, deriv.k)
      [] OTHER -> DownwardDz(F, c, dim, deriv.i, deriv.j, deriv.k)
\* the sample before the cell of the last evaluation along array index a
Previous(a) ==
    CASE a = "i" -> At(F, deriv.i - 1, deriv.j, deriv.k)
      [] a = "j" -> At(F, deriv.i, deriv.j - 1, deriv.k)
      [] OTHER -> At(F, deriv.i, deriv.j, deriv.k - 1)

\* C19: on every axis the build has, the downward derivative is
\* (F(index) - F(previous index along the axis)) / spacing and does not
\* change when slot 1 (alpha), 2, 3 (betas) or 4 (gamma) of the
\* coefficient vector changes; in the XZ build the z derivative steps along
\* the second array index.
C19_DownwardTwoPoint ==
    (Initialized /\ deriv.op \in DownwardOps /\ AlongOf(deriv.op) # "none") =>
      \A inv \in {RDiv(One, cell_size[AxisOf(deriv.op)])} :
      \A here \in {At(F, deriv.i, deriv.j, deriv.k)} :
      \A prev \in {Previous(AlongOf(deriv.op))} :
        /\ deriv.val = RMul(inv, RSub(here, prev))
        /\ \A s \in 1..4, g \in SlotProbes :
             DownOn(deriv.op, WithSlot(StoredOf(AxisOf(deriv.op)), s, g))
               = deriv.val
        /\ (dim = "XZ" /\ deriv.op = "DownwardDz") =>
             deriv.val = RMul(inv, RSub(here, At(F, deriv.i, deriv.j - 1, deriv.k)))

C19_Witness ==
    /\ Initialized
    /\ dim = "XZ"
    /\ deriv.op = "DownwardDz"
    /\ F.kind = "varying"
    /\ cell_size[2] = RInt(2)
    /\ deriv.val # Zero
    /\ At(F, deriv.i, deriv.j, deriv.k - 1) # At(F, deriv.i, deriv.j - 1, deriv.k)

\* the value of operator op at the cell of the last evaluation, on field f
\* with the coefficient vector c
ValueWith(op, f, c) ==
    CASE op = "UpwardDx" -> UpwardDx(f, c, dim, deriv.i, deriv.j, deriv.k)
      [] op = "UpwardDy" -> UpwardDy(f, c, dim, deriv.i, deriv.j, deriv.k)
      [] op = "UpwardDz" -> UpwardDz(f, c, dim, deriv.i, deriv.j, deriv.k)
      [] op = "DownwardDx" -> DownwardDx(f, c, dim, deriv.i, deriv.j, deriv.k)
      [] op = "DownwardDy" -> DownwardDy(f, c, dim, deriv.i, deriv.j, deriv.k)
      [] OTHER -> DownwardDz(f, c, dim, deriv.i, deriv.j, deriv.k)
\* a coefficient vector with no zero slot
UnitCoefs == [s \in 0..5 |-> One]
\* the indices within one step of the cell of the last evaluation on every
\* axis, and those two steps away from it along one axis
Around ==
    {<<a, b, c>> : a \in (deriv.i - 1)..(deriv.i + 1),
                   b \in (deriv.j - 1)..(deriv.j + 1),
                   c \in (deriv.k - 1)..(deriv.k + 1)}
    \cup {<<deriv.i + n, deriv.j, deriv.k>> : n \in {-2, 2}}
    \cup {<<deriv.i, deriv.j + n, deriv.k>> : n \in {-2, 2}}
    \cup {<<deriv.i, deriv.j, deriv.k + n>> : n \in {-2, 2}}
\* the indices of the array of the build, interior and one-cell halo (the
\* XZ array has the one plane k = 0)
ArrayBox ==
    {<<a, b, c>> : a \in 0..(GridN + 1), b \in 0..(GridN + 1),
                   c \in IF dim = "3D" THEN 0..(GridN + 1) ELSE {0}}
\* the indices read by the last evaluation
LastReads == Reads(deriv.op, dim, deriv.i, deriv.j, deriv.k)
\* the read set is the set of samples the value depends on: with
\* coefficients that are all nonzero, a change of a sample outside it leaves
\* the value as it is and a change of a sample inside it changes the value
ReadsAreTheSamplesUsed ==
    \A v \in {ValueWith(deriv.op, F, UnitCoefs)} :
      \A p \in Around :
        (p \in LastReads) = (ValueWith(deriv.op, Poke(F, p), UnitCoefs) # v)

\* C20: an operator evaluated at (i,j,k) reads F only at indices that
\* differ from (i,j,k) by at most one on each axis, so at an interior cell
\* of an array with a one-cell halo it reads inside the array; and no
\* evaluation changes the field.
C20_ReadsWithinOneCell ==
    /\ [](deriv.op # "none" =>
            /\ ReadsAreTheSamplesUsed
            /\ \A p \in LastReads :
                 /\ p[1] \in (deriv.i - 1)..(deriv.i + 1)
                 /\ p[2] \in (deriv.j - 1)..(deriv.j + 1)
                 /\ p[3] \in (deriv.k - 1)..(deriv.k + 1)
                 /\ p \in ArrayBox)
    /\ [][F' = F]_vars

C20_Witness ==
    /\ Initialized
    /\ dim = "3D"
    /\ deriv.op = "UpwardDz"
    /\ deriv.i = GridN
    /\ deriv.j = 1
    /\ deriv.k = GridN
    /\ F.kind = "varying"
    /\ <<GridN + 1, 0, GridN + 1>> \in LastReads

(***************************************************************************)
(* Properties of the attribute registration (SpecComp).                    *)
(***************************************************************************)
\* C12: the slot the maps report for a name is the one of the name's first
\* registration and never changes afterwards, also when the same name is
\* registered again: no call changes an entry a map already holds.
C12_SlotsNeverChange ==
    [][/\ \A n \in DOMAIN particle_comps :
            /\ particle_comps'[n] = particle_comps[n]
            /\ particle_runtime_comps'[n] = particle_runtime_comps[n]
       /\ \A n \in DOMAIN particle_icomps :
            /\ particle_icomps'[n] = particle_icomps[n]
            /\ particle_runtime_icomps'[n] = particle_runtime_icomps[n]]_vars

\* C13: every slot AddRealComp records in particle_comps is at least
\* PIdx::nattribs, the runtime index recorded for the same name is that
\* slot minus PIdx::nattribs and not negative, and for AddIntComp the
\* runtime index is the slot.
C13_ReservedSlotsFirst ==
    /\ DOMAIN particle_runtime_comps = DOMAIN particle_comps
    /\ DOMAIN particle_runtime_icomps = DOMAIN particle_icomps
    /\ \A n \in DOMAIN particle_comps :
         /\ particle_comps[n] >= PIdx_nattribs
         /\ particle_comps[n] > PIdx_Bz
         /\ particle_runtime_comps[n] = particle_comps[n] - PIdx_nattribs
         /\ particle_runtime_comps[n] >= 0
    /\ \A n \in DOMAIN particle_icomps :
         particle_runtime_icomps[n] = particle_icomps[n]

C13_Witness ==
    /\ DOMAIN particle_comps = CompNames
    /\ particle_comps["optical_depth_QSR"] = PIdx_nattribs + 2
    /\ particle_runtime_comps["optical_depth_QSR"] = 2
    /\ particle_icomps = [n \in {"ionization_level"} |-> 0]
    /\ particle_runtime_icomps = [n \in {"ionization_level"} |-> 0]

\* the array the gather of this step has to read for component comp
GatherSource(comp) ==
    IF use_nci THEN NCIFilter(Efield[comp]) ELSE Efield[comp]
GatherReadsSnapshot ==
    \A p \in PartIdx :
        prog[p] = 0 /\ prog'[p] = 1 =>
            parts'[p].E = [comp \in FieldComps |->
                             Interpolate(GatherSource(comp), parts[p].x)]

\* C14: applying the NCI Godfrey filter before a gather leaves the six grid
\* field arrays Ex, Ey, Ez, Bx, By, Bz unchanged (they change only between
\* two steps); the filtered values are held in separate arrays, to which the
\* pointers used for the gather of that box are redirected; every pass over
\* a box starts with the pointers on the grid fields, so that the gather of
\* the next step reads the grid fields of that step (filtered anew if the
\* filter is on), never the filtered arrays of an earlier step
C14_FilterLeavesGridFields ==
    /\ [][estep' = estep => Efield' = Efield]_vars
    /\ [](\A b \in Boxes :
            /\ bstage[b] = "filter" => fab[b] = Persisted
            /\ bstage[b] = "gather" =>
                 IF use_nci
                 THEN /\ fab[b] = [comp \in FieldComps |-> "filtered"]
                      /\ filtered[b] =
                           [comp \in FieldComps |-> NCIFilter(Efield[comp])]
                 ELSE fab[b] = Persisted)
    /\ [][GatherReadsSnapshot]_vars
\* in the second step a particle has gathered through the redirected
\* pointers, and the filtered arrays differ from the grid fields
C14_Witness ==
    /\ estep > 1
    /\ use_nci
    /\ \E p \in PartIdx :
         /\ prog[p] = 1
         /\ fab[parts[p].box] = [comp \in FieldComps |-> "filtered"]
         /\ \A comp \in FieldComps :
              /\ filtered[parts[p].box][comp] # Efield[comp]
              /\ Efield[comp] # InitField[comp]
              /\ parts[p].E[comp] # Interpolate(Efield[comp], parts[p].x)

OppositePairs ==
    {pq \in PartIdx \X PartIdx :
        /\ pq[1] # pq[2]
        /\ parts[pq[1]].x = parts[pq[2]].x
        /\ parts[pq[1]].w = RNeg(parts[pq[2]].w)
        /\ prog[pq[1]] = 3
        /\ prog[pq[2]] = 3}
NetCharge(pq) == [n \in Nodes |-> RAdd(dep[pq[1]][n], dep[pq[2]][n])]
Written == {PIdx_w, PIdx_ux, PIdx_uy, PIdx_uz}
\* tile t2 is tile t1 but for the components Written of slot i_dst
SameButSlot(t1, t2, i_dst) ==
    /\ t2.m_aos = t1.m_aos
    /\ t2.m_runtime_rdata = t1.m_runtime_rdata
    /\ DOMAIN t2.m_rdata = DOMAIN t1.m_rdata
    /\ \A c \in DOMAIN t1.m_rdata :
         /\ DOMAIN t2.m_rdata[c] = DOMAIN t1.m_rdata[c]
         /\ \A j \in DOMAIN t1.m_rdata[c] :
              (c \in Written /\ j = i_dst) \/ t2.m_rdata[c][j] = t1.m_rdata[c][j]
\* tile s2 is tile s1 but for the id of particle i_src
SameButId(s1, s2, i_src) ==
    /\ s2.m_rdata = s1.m_rdata
    /\ s2.m_runtime_rdata = s1.m_runtime_rdata
    /\ DOMAIN s2.m_aos = DOMAIN s1.m_aos
    /\ \A j \in DOMAIN s1.m_aos : j = i_src \/ s2.m_aos[j] = s1.m_aos[j]

\* C21: one invocation of the transform on photon i_src changes only the
\* weight and the three momentum components of slot i_dst1 of dst1 and of
\* slot i_dst2 of dst2 and the id of i_src; the photon's weight, momentum,
\* gathered fields and optical depth, the size of the source tile, every
\* other particle and the gathered fields of the two slots stay as they are
C21_TransformFrame ==
    [][\A i \in SrcIdx :
          calls'[i] # calls[i] =>
              /\ SameButId(src, src', i)
              /\ SameButSlot(dst1, dst1', slot[i][1])
              /\ SameButSlot(dst2, dst2', slot[i][2])]_vars
\* a photon has been transformed while another one is still pending: its
\* id is negative, its slots hold the daughters' weights, and the gathered
\* fields of the slots are still the ones nobody has written
C21_Witness ==
    /\ stage = "transform"
    /\ pending # {}
    /\ \E i \in DOMAIN slot \ pending :
         /\ calls[i] > 0
         /\ src.m_aos[i].id < 0
         /\ dst1.m_rdata[PIdx_w][slot[i][1]] # Unset
         /\ dst2.m_rdata[PIdx_uz][slot[i][2]] # Unset
         /\ dst1.m_rdata[PIdx_Ex][slot[i][1]] = Unset
         /\ dst2.m_rdata[PIdx_Bz][slot[i][2]] = Unset

\* the tiles after the transform has been invoked on the photons of P, in
\* ascending order, with the slots of this pass
RECURSIVE Finish(_, _)
Finish(t, P) ==
    IF P = {} THEN t
    ELSE LET i == CHOOSE x \in P : \A y \in P : x <= y
         IN  Finish(PairGenerationTransformFunc(t.dst1, t.dst2, t.src, i,
                        slot[i][1], slot[i][2], m_generate_functor),
                    P \ {i})

\* C22: with the slots assigned by the prefix count of flagged photons
\* before any slot is written (old size + count up to and including the
\* photon - 1), distinct flagged photons have distinct slots inside the
\* newly allocated range of each destination tile, and whichever pending
\* photon is transformed next, the tiles the pass ends with are the same:
\* the final source and destination tiles do not depend on the interleaving
C22_SlotsDistinctOrderFree ==
    /\ [](stage = "transform" =>
            /\ \A i \in DOMAIN slot :
                 /\ slot[i][1] = dst_index[1]
                      + Cardinality({j \in DOMAIN slot : j <= i}) - 1
                 /\ slot[i][2] = dst_index[2]
                      + Cardinality({j \in DOMAIN slot : j <= i}) - 1
                 /\ slot[i][1] \in dst_index[1]..(np(dst1) - 1)
                 /\ slot[i][2] \in dst_index[2]..(np(dst2) - 1)
            /\ \A i \in DOMAIN slot : \A j \in DOMAIN slot :
                 i # j => slot[i][1] # slot[j][1] /\ slot[i][2] # slot[j][2])
    /\ [][stage = "transform" /\ pending' # pending /\ stage' = "transform"
            => Finish([dst1 |-> dst1', dst2 |-> dst2', src |-> src'], pending')
               = Finish([dst1 |-> dst1, dst2 |-> dst2, src |-> src], pending)]_vars
\* two photons were flagged in one pass, got different slots behind the
\* particles the destination tiles already held, and were transformed with
\* the higher index first
C22_Witness ==
    /\ stage = "transform"
    /\ dst_index[1] > 0
    /\ \E i \in DOMAIN slot : \E j \in DOMAIN slot :
         /\ i < j
         /\ i \in pending
         /\ j \notin pending
         /\ src.m_aos[j].id < 0
         /\ dst1.m_rdata[PIdx_w][slot[j][1]] # Unset
         /\ dst1.m_rdata[PIdx_w][slot[i][1]] = Unset

(***************************************************************************)
(* Deposition by several threads (SpecDeposit).                            *)
(***************************************************************************)
\* the sum of the values of the function f
RECURSIVE SumOfValues(_)
SumOfValues(f) ==
    IF DOMAIN f = {} THEN Zero
    ELSE LET x == CHOOSE y \in DOMAIN f : TRUE
         IN  RAdd(f[x], SumOfValues([y \in DOMAIN f \ {x} |-> f[y]]))
\* the sum of all particles' contributions to node n
TotalCharge(n) ==
    SumOfValues([p \in DOMAIN dparts |-> Deposit(dparts[p])[n]])
\* the contributions to node n not made yet
Outstanding(n) ==
    SumOfValues([t \in Threads |->
        SumOfValues([pn \in {x \in left[t] : x[2] = n} |-> Contribution(pn)])])
\* what the scratch buffers hold for node n and have not added to the grid
Unmerged(n) ==
    SumOfValues([t \in Threads |->
        IF n \in merged[t] THEN Zero ELSE local_rho[t][n]])
DepositionDone ==
    \A t \in Threads :
        /\ left[t] = {}
        /\ reg[t] = NoValue
        /\ use_atomics \/ merged[t] = Nodes

\* C23: deposition by several threads is race-free, with atomic adds to
\* the grid as well as with one scratch buffer per thread number added to
\* the grid once the thread has deposited its particles: in every
\* interleaving no contribution is lost (what the grid holds, what the
\* buffers still hold and what remains to be deposited add up to the sum
\* of all contributions to the node), and when the threads are done every
\* node holds the sum of all particles' contributions to it
C23_DepositionRaceFree ==
    \A n \in Nodes :
        /\ RAdd(rho_mf[n], RAdd(Unmerged(n), Outstanding(n))) = TotalCharge(n)
        /\ DepositionDone => rho_mf[n] = TotalCharge(n)
\* both threads have deposited through their scratch buffers to one node,
\* which holds the sum of the contributions of three particles
C23_Witness ==
    /\ DepositionDone
    /\ ~use_atomics
    /\ \E n \in Nodes :
         /\ \A t \in Threads : local_rho[t][n] # Zero
         /\ Cardinality({p \in DOMAIN dparts :
                            Deposit(dparts[p])[n] # Zero}) > 2
         /\ rho_mf[n] = TotalCharge(n)
\* the threads are done, having added every contribution atomically, two
\* of them to the same node
C23_WitnessAtomic ==
    /\ DepositionDone
    /\ use_atomics
    /\ \E n \in Nodes :
         /\ \A t \in Threads : \E p \in DOMAIN dparts :
              dparts[p].box = t /\ Deposit(dparts[p])[n] # Zero
         /\ rho_mf[n] = TotalCharge(n)
         /\ rho_mf[n] # Zero

(***************************************************************************)
(* The destroyed photon (SpecQED).                                         *)
(***************************************************************************)
\* C24: once the transform has set a photon's id negative, no step of the
\* pipeline (optical-depth advance of the push, filter evaluation,
\* transform of this or of another photon, end of the pass) makes it
\* non-negative again, and the photon keeps its index: the source tile
\* never shrinks
C24_DestroyedIsAbsorbing ==
    [][\A i \in SrcIdx :
          src.m_aos[i].id < 0 =>
              /\ i \in DOMAIN src'.m_aos
              /\ src'.m_aos[i].id < 0
              /\ DOMAIN src'.m_aos = SrcIdx]_vars
\* a photon destroyed in the first pass is still there, with a negative
\* id, after the push, the filter and the transform of another photon in
\* the second pass
C24_Witness ==
    /\ pass > 1
    /\ stage = "transform"
    /\ \E i \in SrcIdx : \E j \in SrcIdx :
         /\ firstNeg[i] = 1
         /\ firstNeg[j] = pass
         /\ calls[i] > 0
         /\ calls[j] > 0
         /\ src.m_aos[i].id < 0
         /\ src.m_aos[j].id < 0

(***************************************************************************)
(* Registration with distinct names (SpecComp).                            *)
(***************************************************************************)
\* the k entries of the map m are pairwise distinct and are lo, ..., lo+k-1
Consecutive(m, lo, k) ==
    /\ \A a \in DOMAIN m : \A b \in DOMAIN m : a # b => m[a] # m[b]
    /\ {m[a] : a \in DOMAIN m} = lo..(lo + k - 1)
\* so far every call registered a name of its own
DistinctReal == Cardinality(DOMAIN particle_runtime_comps) = m_num_runtime_real
DistinctInt == Cardinality(DOMAIN particle_runtime_icomps) = m_num_runtime_int

\* C25: after k calls of AddRealComp with pairwise distinct names on a
\* container that had no runtime components, the names have pairwise
\* distinct slots and the runtime indices are exactly 0, ..., k-1, in the
\* order of registration: the call that registers a new name after j
\* others records runtime index j for it and leaves the others' entries
\* alone.  Likewise for AddIntComp and the int maps
C25_DistinctNamesDistinctSlots ==
    /\ [](DistinctReal =>
            /\ Consecutive(particle_runtime_comps, 0, m_num_runtime_real)
            /\ Consecutive(particle_comps, PIdx_nattribs, m_num_runtime_real))
    /\ [](DistinctInt =>
            /\ Consecutive(particle_runtime_icomps, 0, m_num_runtime_int)
            /\ Consecutive(particle_icomps, NArrayInt, m_num_runtime_int))
    /\ [][\A n \in CompNames :
            /\ (DistinctReal /\ n \in DOMAIN particle_runtime_comps'
                             /\ n \notin DOMAIN particle_runtime_comps)
                 => /\ particle_runtime_comps'[n] = m_num_runtime_real
                    /\ \A o \in DOMAIN particle_runtime_comps :
                         particle_runtime_comps'[o] = particle_runtime_comps[o]
            /\ (DistinctInt /\ n \in DOMAIN particle_runtime_icomps'
                            /\ n \notin DOMAIN particle_runtime_icomps)
                 => /\ particle_runtime_icomps'[n] = m_num_runtime_int
                    /\ \A o \in DOMAIN particle_runtime_icomps :
                         particle_runtime_icomps'[o] = particle_runtime_icomps[o]]_vars
\* three real and two int components have been registered under distinct
\* names, after the reals
C25_Witness ==
    /\ DistinctReal
    /\ DistinctInt
    /\ m_num_runtime_real > 2
    /\ m_num_runtime_int > 1
    /\ \E a \in DOMAIN particle_runtime_comps :
         particle_runtime_comps[a] = m_num_runtime_real - 1
    /\ \E a \in DOMAIN particle_runtime_icomps :
         /\ particle_runtime_icomps[a] = m_num_runtime_int - 1
         /\ particle_icomps[a] = m_num_runtime_int - 1

====
